---- MODULE Spec2Model ----
(***************************************************************************)
(* Model of the recommendation engine of silleback                         *)
(* (api/recommendations/predictor.py).                                     *)
(*                                                                         *)
(* Numbers.  The code computes in floating point; the model computes the   *)
(* same quantities exactly, in fixed units:                                *)
(*   - accord weights in tenths        (1.0 -> 10, 0.1 -> 1)               *)
(*   - centred ratings in halves       (2.5 -> 5, -2.5 -> -5)              *)
(*   - similarity in twentieths        (tenths * halves)                   *)
(*   - boosted scores in 1/10000       (similarity*500 + 7*log1p in milli) *)
(*   - final scores as fractions       [num, den]                          *)
(* JSON values of a survey are records: [str |-> s], [num |-> n] or        *)
(* [null |-> TRUE].  Python's None is the record None.                     *)
(***************************************************************************)
EXTENDS Integers, Sequences, FiniteSets, TLC

VARIABLES
    accordTable,   \* Accord rows: the set of Accord.name values
    perfumes,      \* Perfume rows: perfume id -> fields and attached accords
    collation,     \* how the database orders text for order_by('name')
    surveys,       \* SurveyResponse rows: user -> NoSurvey or response_data
    cache,         \* the entry 'perfume_accord_matrix_data' of the Django cache
    lastCall,      \* history: the last call of a function of the predictor
    repeatSame,    \* history: the last call repeated the call before it and
                   \* returned the same value
    matches,       \* UserPerfumeMatch rows: user -> (perfume id -> match_percentage)
    jobs,          \* update_user_recommendations: user -> the state of the job
    classifier,    \* the AccordOccasionClassifier object: its three fields
    accordOrder,   \* PerfumeAccordOrder rows: perfume id -> accord names by order
    occasionTable, \* Occasion rows: the sequence of Occasion.name, the id is
                   \* the position
    perfumeOccasions,  \* Perfume.occasions: perfume id -> set of Occasion ids
    pricePerML     \* Perfume.pricePerML: perfume id -> None or a price

\* The variables of occasion tagging and of the recommendations listing.
tagVars == <<classifier, accordOrder, occasionTable, perfumeOccasions, pricePerML>>

vars ==
    <<accordTable, perfumes, collation, surveys, cache, lastCall, repeatSame,
      matches, jobs, tagVars>>

----------------------------------------------------------------------------
(* Bounds *)

MaxPerfumes == 3
MaxCachePerfumes == 2
MaxCatalogPerfumes == 2
MaxAccords == 3
MaxTagged == 2
MaxListed == 2
MaxRanked == 3

----------------------------------------------------------------------------
(* Values *)

None == [none |-> TRUE]
NoSurvey == [nosurvey |-> TRUE]
NoEntry == [noentry |-> TRUE]
NoCall == [fn |-> "none"]

JStr(s) == [str |-> s]
JNum(n) == [num |-> n]
JNull == [null |-> TRUE]
IsStr(v) == DOMAIN v = {"str"}
IsNum(v) == DOMAIN v = {"num"}

Users == {"u1", "u2"}

\* A user without UserPerfumeMatch rows; a user for whom no job was sent.
NoRows == [p \in {} |-> 0]
NoJob == [pc |-> "idle"]

\* A database without perfumes that carry occasions or prices, and a
\* classifier with the defaults of AccordOccasionClassifier.__init__.
NoTagging ==
    /\ classifier = [min_occasions |-> 1, max_occasions |-> 3, score_threshold |-> 40]
    /\ accordOrder = <<>>
    /\ occasionTable = <<>>
    /\ perfumeOccasions = <<>>
    /\ pricePerML = <<>>

\* Text the model handles, in code-point order (Python's order of str, and
\* the order of a database column with a binary collation).
CodepointOrder ==
    <<"", "Citrus", "Female", "Woody", "amber", "citrus", "female", "gender",
      "male", "other", "unisex", "woody">>

\* The same text in the order of a linguistic collation (PostgreSQL's
\* en_US): letters first, lower case before upper case on a tie.
LocaleOrder ==
    <<"", "amber", "citrus", "Citrus", "female", "Female", "gender", "male",
      "other", "unisex", "woody", "Woody">>

Collations == {"binary", "locale"}

RECURSIVE IndexOf(_, _)
IndexOf(seq, x) ==
    IF seq = <<>> THEN 0
    ELSE IF Head(seq) = x THEN 1
    ELSE LET r == IndexOf(Tail(seq), x) IN IF r = 0 THEN 0 ELSE r + 1

StrLess(a, b) == IndexOf(CodepointOrder, a) < IndexOf(CodepointOrder, b)

Range(seq) == {seq[i] : i \in DOMAIN seq}

Perms(S) ==
    {s \in [1..Cardinality(S) -> S] : \A x \in S : \E i \in DOMAIN s : s[i] = x}

\* str.lower()
Lower(s) ==
    CASE s = "Citrus" -> "citrus"
      [] s = "Woody" -> "woody"
      [] s = "Female" -> "female"
      [] s = "Oud" -> "oud"
      [] OTHER -> s

\* QuerySet.order_by('name') over a set of names: the database's collation
\* decides the order.
OrderByName(names, coll) ==
    SelectSeq(IF coll = "binary" THEN CodepointOrder ELSE LocaleOrder,
              LAMBDA x : x \in names)

\* [name.lower() for name in names if name]
LowerNamed(names) ==
    LET named == SelectSeq(names, LAMBDA name : name # "")
    IN [i \in DOMAIN named |-> Lower(named[i])]

Min(a, b) == IF a < b THEN a ELSE b
SetMax(S) == CHOOSE x \in S : \A y \in S : y <= x
SetMin(S) == CHOOSE x \in S : \A y \in S : x <= y

RECURSIVE SumSeq(_)
SumSeq(seq) == IF seq = <<>> THEN 0 ELSE Head(seq) + SumSeq(Tail(seq))

RECURSIVE Gcd(_, _)
Gcd(a, b) == IF b = 0 THEN a ELSE Gcd(b, a % b)

Some(v) == [some |-> v]

\* dict.get(key, default)
DictGet(d, k, default) == IF k \in DOMAIN d THEN d[k] ELSE default

----------------------------------------------------------------------------
(* _get_all_accord_list *)

\* Accord.objects.filter(perfumes__isnull=False).distinct(): the names of the
\* Accord rows attached to at least one perfume.
LinkedAccords(table, cat) ==
    {a \in table : \E p \in DOMAIN cat : a \in cat[p].accords}

\* lookupFault: the query raises; the except branch returns [].
GetAllAccordList(table, cat, coll, lookupFault) ==
    IF lookupFault THEN <<>>
    ELSE LET all_accords == OrderByName(LinkedAccords(table, cat), coll)
             all_accords_lower ==
                 LowerNamed(all_accords)
         IN all_accords_lower

----------------------------------------------------------------------------
(* _get_user_survey_vector_and_gender *)

\* float(rating): numbers convert, the numeric string "4" parses, any other
\* string raises ValueError and null raises TypeError.
ToFloat(rating) ==
    IF IsNum(rating) THEN Some(rating.num)
    ELSE IF IsStr(rating) /\ rating.str = "4" THEN Some(4)
    ELSE None

\* One entry of the vector, in halves, for an accord of surveyed_accords_set.
CentredRating(rating) ==
    LET rating_float == ToFloat(rating)
    IN IF rating_float = None THEN 0                  \* except (ValueError, TypeError)
       ELSE IF rating_float.some = -1 THEN 0
       ELSE IF 0 <= rating_float.some /\ rating_float.some <= 5
            THEN 2 * rating_float.some - 5
       ELSE 0

\* survey: NoSurvey or [response_data |-> dict].  Returns the pair
\* (user_survey_vector, user_gender), each None or Some(value).
GetUserSurveyVectorAndGender(survey, all_accords) ==
    IF survey = NoSurvey
    THEN [vector |-> None, gender |-> None]           \* SurveyResponse.DoesNotExist
    ELSE
    LET response_data == survey.response_data
        gender_value == DictGet(response_data, "gender", JStr(""))
    IN  IF ~IsStr(gender_value)
        THEN [vector |-> None, gender |-> None]       \* .lower() raises, except Exception
        ELSE
        LET lowered == Lower(gender_value.str)
            user_gender == IF lowered = "" THEN None ELSE Some(lowered)
            surveyed_accords_set ==
                {Lower(key) : key \in {k \in DOMAIN response_data :
                                          Lower(k) \in Range(all_accords)}}
            user_survey_vector ==
                [i \in DOMAIN all_accords |->
                    IF all_accords[i] \in surveyed_accords_set
                    THEN CentredRating(DictGet(response_data, all_accords[i], JNum(0)))
                    ELSE 0]
        IN [vector |-> Some(user_survey_vector), gender |-> user_gender]

----------------------------------------------------------------------------
(* _get_perfume_accord_data *)

EmptyMatrix == [columns |-> <<>>, index |-> <<>>, w |-> <<>>]

DfEmpty(df) == Len(df) = 0
MatrixEmpty(m) == Len(m.index) = 0 \/ Len(m.columns) = 0

\* The weight, in tenths, of the accord at position idx (from 0) of a
\* perfume's accord list.
Weight(idx) ==
    LET weight_index == Min(idx, 5)
    IN IF weight_index < 5 THEN 10 - 2 * weight_index ELSE 1

\* A perfume's row of the matrix: the loop assigns
\* accord_matrix_df.loc[perfume_id, accord_name] for idx = 0, 1, ..., so every
\* column named accord_name ends with the weight of the name's last position.
MatrixRow(ordered_perfume_accords, columns) ==
    [j \in DOMAIN columns |->
        LET hits == {i \in DOMAIN ordered_perfume_accords :
                        ordered_perfume_accords[i] = columns[j]}
        IN IF hits = {} THEN 0 ELSE Weight(SetMax(hits) - 1)]

FieldOrZero(v) == IF IsNum(v) THEN v.num ELSE 0

\* The row of perfumes_df for perfume p.
PerfumeRow(cat, p) ==
    [perfume_id |-> p,
     gender |-> IF cat[p].gender # "" THEN Lower(cat[p].gender) ELSE "unisex",
     recent_magnitude |-> FieldOrZero(cat[p].popularity),
     rating_count |-> FieldOrZero(cat[p].rating_count),
     overall_rating |-> FieldOrZero(cat[p].overall_rating)]

\* The ways to order every perfume's accords: functions from the perfumes
\* of ids to an ordering of their accords.
RECURSIVE AccordOrders(_, _)
AccordOrders(cat, ids) ==
    IF ids = {} THEN {[p \in {} |-> <<>>]}
    ELSE LET p == CHOOSE x \in ids : TRUE
         IN {[q \in DOMAIN f \cup {p} |-> IF q = p THEN s ELSE f[q]] :
                f \in AccordOrders(cat, ids \ {p}), s \in Perms(cat[p].accords)}

\* What the two queries without an order_by return: the perfume rows in some
\* order, and for each perfume its accords in some order.
QueryResults(cat) ==
    {[rows |-> r, accords |-> a] :
        r \in Perms(DOMAIN cat), a \in AccordOrders(cat, DOMAIN cat)}

\* env: what the environment does during the call: env.fault is "none",
\* "cache_get" (cache.get raises) or "accord_lookup" (the accord query
\* raises), env.db is the QueryResults the database returns.
\* Returns the pair (perfumes_df, accord_matrix_df) and the cache entry the
\* call leaves.
GetPerfumeAccordData(entry, table, cat, coll, env) ==
    IF env.fault = "cache_get"
    THEN [perfumes_df |-> <<>>, accord_matrix_df |-> EmptyMatrix,
          cache |-> entry, hit |-> FALSE]             \* except Exception
    ELSE IF entry # NoEntry
    THEN [perfumes_df |-> entry.perfumes_df,
          accord_matrix_df |-> entry.accord_matrix_df,
          cache |-> entry, hit |-> TRUE]              \* if cached_data
    ELSE
    LET all_accords == GetAllAccordList(table, cat, coll, env.fault = "accord_lookup")
    IN  IF DOMAIN cat = {}
        THEN [perfumes_df |-> <<>>, accord_matrix_df |-> EmptyMatrix,
              cache |-> entry, hit |-> FALSE]         \* if not perfumes
        ELSE
        LET perfumes_df == [i \in DOMAIN env.db.rows |-> PerfumeRow(cat, env.db.rows[i])]
            ordered(p) ==
                LowerNamed(env.db.accords[p])
            accord_matrix_df ==
                [columns |-> all_accords,
                 index |-> env.db.rows,
                 w |-> [p \in DOMAIN cat |-> MatrixRow(ordered(p), all_accords)]]
        IN [perfumes_df |-> perfumes_df, accord_matrix_df |-> accord_matrix_df,
            cache |-> [perfumes_df |-> perfumes_df,
                       accord_matrix_df |-> accord_matrix_df],
            hit |-> FALSE]

----------------------------------------------------------------------------
(* generate_recommendations *)

AlphaTenths == 7

\* np.log1p(n) in thousandths, for n = 0, 1, 2, ...
Log1pMilliTable == <<0, 693, 1099, 1386, 1609, 1792>>

\* np.log1p(np.maximum(0, x)) in thousandths.
Log1pMilli(x) == IF x <= 0 THEN 0 ELSE Log1pMilliTable[x + 1]

\* Step 4 with the unisex branch left out: a unisex user falls to the else
\* branch and keeps every row.
GenderFilter_NoUnisexBranch(perfumes_df, user_gender) ==
    IF user_gender = "male"
    THEN SelectSeq(perfumes_df, LAMBDA row : row.gender \in {"male", "unisex"})
    ELSE IF user_gender = "female"
    THEN SelectSeq(perfumes_df, LAMBDA row : row.gender \in {"female", "unisex"})
    ELSE perfumes_df

\* Step 4: the rows of perfumes_df the user's gender keeps.
GenderFilter(perfumes_df, user_gender) ==
    IF user_gender = "male"
    THEN SelectSeq(perfumes_df, LAMBDA row : row.gender \in {"male", "unisex"})
    ELSE IF user_gender = "female"
    THEN SelectSeq(perfumes_df, LAMBDA row : row.gender \in {"female", "unisex"})
    ELSE IF user_gender = "unisex"
    THEN SelectSeq(perfumes_df, LAMBDA row : row.gender = "unisex")
    ELSE perfumes_df

\* The guard of line 198 testing perfumes_df only.
DataUnavailable_FrameOnly(perfumes_df, accord_matrix_df) ==
    DfEmpty(perfumes_df)

\* Line 198: the guard that returns None before the survey is read.
DataUnavailable(perfumes_df, accord_matrix_df) ==
    DfEmpty(perfumes_df) \/ MatrixEmpty(accord_matrix_df)

\* Step 5: candidate_accord_vectors.values.dot(user_survey_vector), in
\* twentieths; numpy raises ValueError when the lengths differ.
SimilarityScores(accord_matrix_df, candidates, user_survey_vector) ==
    IF Len(accord_matrix_df.columns) # Len(user_survey_vector)
    THEN None
    ELSE Some([i \in DOMAIN candidates |->
                 SumSeq([j \in DOMAIN user_survey_vector |->
                           accord_matrix_df.w[candidates[i].perfume_id][j]
                           * user_survey_vector[j]])])

\* Step 6: boosted_score in ten-thousandths.
BoostedScore(row, similarity_score) ==
    LET perfumes_boost == Log1pMilli(row.rating_count)
                          + Log1pMilli(row.recent_magnitude)
                          + Log1pMilli(row.overall_rating)
    IN similarity_score * 500 + AlphaTenths * perfumes_boost

\* Decimal(str(x)): the decimal holds the value of x, with all the digits
\* str prints; the model keeps the value as a fraction in lowest terms.
ToDecimal(num, den) ==
    LET g == Gcd(num, den) IN [num |-> num \div g, den |-> den \div g]

\* Step 7 giving the value of its last branch (0.0) to identical scores.
Normalize_TiesZero(boosted) ==
    LET min_score == SetMin(Range(boosted))
        max_score == SetMax(Range(boosted))
    IN [i \in DOMAIN boosted |->
          IF max_score > min_score
          THEN ToDecimal(boosted[i] - min_score, max_score - min_score)
          ELSE ToDecimal(0, 1)]

\* Step 7: final_score of every candidate from the boosted scores.
Normalize(boosted) ==
    LET min_score == SetMin(Range(boosted))
        max_score == SetMax(Range(boosted))
    IN [i \in DOMAIN boosted |->
          IF max_score > min_score
          THEN ToDecimal(boosted[i] - min_score, max_score - min_score)
          ELSE ToDecimal(1, 2)]

ScoreLess(a, b) == a.num * b.den < b.num * a.den

\* sort_values(by='final_score', ascending=False) on at most 16 rows: rows
\* of equal final_score keep the order they have in the frame.
RECURSIVE InsertDescending(_, _)
InsertDescending(sorted, x) ==
    IF sorted = <<>> THEN <<x>>
    ELSE IF ScoreLess(Head(sorted).score, x.score) THEN <<x>> \o sorted
    ELSE <<Head(sorted)>> \o InsertDescending(Tail(sorted), x)

RECURSIVE SortDescending(_)
SortDescending(seq) ==
    IF seq = <<>> THEN <<>>
    ELSE InsertDescending(SortDescending(SubSeq(seq, 1, Len(seq) - 1)), seq[Len(seq)])

\* generate_recommendations on the frames it obtained.  value is what it
\* returns: None, or [list |-> <<[perfume_id, score], ...>>]; boosted is the
\* boosted_score column it computed on the way (empty when it returned early).
Recommend(perfumes_df, accord_matrix_df, survey) ==
    IF DataUnavailable(perfumes_df, accord_matrix_df)
    THEN [value |-> None, boosted |-> <<>>]
    ELSE
    LET all_accords == accord_matrix_df.columns
        sv == GetUserSurveyVectorAndGender(survey, all_accords)
    IN  IF sv.vector = None \/ sv.gender = None
        THEN [value |-> None, boosted |-> <<>>]
        ELSE
        LET filtered == GenderFilter(perfumes_df, sv.gender.some)
            candidates ==
                SelectSeq(filtered,
                          LAMBDA row : row.perfume_id \in Range(accord_matrix_df.index))
        IN  IF candidates = <<>>
            THEN [value |-> [list |-> <<>>], boosted |-> <<>>]
            ELSE
            LET similarity == SimilarityScores(accord_matrix_df, candidates,
                                               sv.vector.some)
            IN  IF similarity = None                  \* except ValueError
                THEN [value |-> None, boosted |-> <<>>]
                ELSE
                LET boosted == [i \in DOMAIN candidates |->
                                   BoostedScore(candidates[i], similarity.some[i])]
                    final == Normalize(boosted)
                    scored == [i \in DOMAIN candidates |->
                                  [perfume_id |-> candidates[i].perfume_id,
                                   score |-> final[i]]]
                IN [value |-> [list |-> SortDescending(scored)],
                    boosted |-> [i \in DOMAIN candidates |->
                                    [perfume_id |-> candidates[i].perfume_id,
                                     boosted_score |-> boosted[i]]]]

----------------------------------------------------------------------------
(* The recommendation service: one catalog, the survey of user u1, the      *)
(* matrix cache, and calls of generate_recommendations.                     *)

DictMerge(a, b) ==
    [k \in DOMAIN a \cup DOMAIN b |-> IF k \in DOMAIN b THEN b[k] ELSE a[k]]

EmptyDict == [k \in {} |-> JNull]

\* The perfume rows the catalogs of this specification are made of.
PerfumeKinds ==
    <<[gender |-> "male", accords |-> {"citrus"},
       popularity |-> JNum(0), rating_count |-> JNum(0), overall_rating |-> JNull],
      [gender |-> "female", accords |-> {"amber"},
       popularity |-> JNum(0), rating_count |-> JNum(-1), overall_rating |-> JNum(0)],
      [gender |-> "unisex", accords |-> {"amber", "citrus"},
       popularity |-> JNum(0), rating_count |-> JNum(0), overall_rating |-> JNull],
      [gender |-> "", accords |-> {},
       popularity |-> JNum(1), rating_count |-> JNum(3), overall_rating |-> JNum(4)]>>

\* Catalogs of at most max perfumes, up to a renaming of the perfume ids: the
\* kinds are listed in the order of PerfumeKinds.  Any other catalog is one
\* of these with its ids permuted, and the database returns the rows in
\* every order.
Catalogs(max) ==
    UNION {{[i \in 1..n |-> PerfumeKinds[k[i]]] :
               k \in {f \in [1..n -> DOMAIN PerfumeKinds] :
                         \A i \in 1..(n - 1) : f[i] <= f[i + 1]}} :
           n \in 0..max}

RecSurveys ==
    {DictMerge([gender |-> g], [citrus |-> JNum(5), amber |-> JNum(0)]) :
        g \in {JStr("male"), JStr("Female"), JStr("unisex"), JStr("other"), JStr("")}}
    \cup {[citrus |-> JNum(5), amber |-> JNum(0)], [gender |-> JStr("male")]}

\* The environments of a call: the database's answer matters only when the
\* call reaches the queries (no fault, no cache entry).
NoDb == [rows |-> <<>>, accords |-> <<>>]

CallEnvs(entry, cat, faults) ==
    {[fault |-> f, db |-> NoDb] : f \in faults \cap {"cache_get"}}
    \cup {[fault |-> f, db |-> q] :
             f \in faults \ {"cache_get"},
             q \in IF entry = NoEntry THEN QueryResults(cat) ELSE {NoDb}}

\* SurveyResponseSubmitView.post: update_or_create of the user's row.  The
\* history starts again: it compares calls made on the same data.
SubmitSurvey(u, data) ==
    /\ surveys[u] # [response_data |-> data]
    /\ surveys' = [surveys EXCEPT ![u] = [response_data |-> data]]
    /\ lastCall' = NoCall
    /\ repeatSame' = TRUE
    /\ UNCHANGED <<tagVars, accordTable, perfumes, collation, cache,
                 matches, jobs>>

\* The cache entry's timeout (24 hours) passes, or the cache evicts it.
ExpireCache ==
    /\ cache # NoEntry
    /\ cache' = NoEntry
    /\ UNCHANGED <<tagVars, accordTable, perfumes, collation, surveys, lastCall, repeatSame,
                 matches, jobs>>

\* A call generate_recommendations(u).
GenerateRecommendations(u, env) ==
    LET data == GetPerfumeAccordData(cache, accordTable, perfumes, collation, env)
        r == Recommend(data.perfumes_df, data.accord_matrix_df, surveys[u])
    IN /\ cache' = data.cache
       /\ lastCall' = [fn |-> "generate_recommendations", user |-> u,
                       fault |-> env.fault, hit |-> data.hit,
                       stored |-> data.cache # NoEntry,
                       rows |-> Len(data.perfumes_df),
                       columns |-> data.accord_matrix_df.columns,
                       result |-> r.value, boosted |-> r.boosted]
       /\ repeatSame' =
            IF /\ lastCall.fn = "generate_recommendations"
               /\ lastCall.user = u
               /\ lastCall.fault = "none"
               /\ env.fault = "none"
            THEN lastCall.result = r.value
            ELSE TRUE
       /\ UNCHANGED <<tagVars, accordTable, perfumes, collation, surveys,
                 matches, jobs>>

\* SpecRec: a catalog that does not change, user u1 who submits the survey
\* once, and calls of generate_recommendations for u1.
RecInit ==
    /\ perfumes \in Catalogs(MaxPerfumes)
    /\ accordTable = {"amber", "citrus", "woody"}
    /\ collation = "binary"
    /\ surveys = [u \in Users |-> NoSurvey]
    /\ cache = NoEntry
    /\ lastCall = NoCall
    /\ repeatSame = TRUE
    /\ matches = [u \in Users |-> NoRows]
    /\ jobs = [u \in Users |-> NoJob]
    /\ NoTagging

RecNext ==
    \/ \E data \in RecSurveys : surveys["u1"] = NoSurvey /\ SubmitSurvey("u1", data)
    \/ \E env \in CallEnvs(cache, perfumes, {"none", "cache_get"}) :
          GenerateRecommendations("u1", env)

SpecRec == RecInit /\ [][RecNext]_vars

\* SpecCache: the same service on catalogs of at most MaxCachePerfumes
\* perfumes, where the survey is resubmitted and the cache entry expires.
CacheInit ==
    /\ perfumes \in Catalogs(MaxCachePerfumes)
    /\ accordTable = {"amber", "citrus", "woody"}
    /\ collation = "binary"
    /\ surveys = [u \in Users |-> NoSurvey]
    /\ cache = NoEntry
    /\ lastCall = NoCall
    /\ repeatSame = TRUE
    /\ matches = [u \in Users |-> NoRows]
    /\ jobs = [u \in Users |-> NoJob]
    /\ NoTagging

CacheNext ==
    \/ \E data \in RecSurveys : SubmitSurvey("u1", data)
    \/ ExpireCache
    \/ \E env \in CallEnvs(cache, perfumes, {"none", "cache_get"}) :
          GenerateRecommendations("u1", env)

SpecCache == CacheInit /\ [][CacheNext]_vars

\* SpecChanges: the catalog changes between calls of
\* generate_recommendations.  The administration site deletes a perfume; the
\* import command creates one.  A new perfume takes an id above every id the
\* catalog and the cache entry hold.
MaxPerfumeId == 3

CachedIds == IF cache = NoEntry THEN {} ELSE Range(cache.accord_matrix_df.index)

\* PerfumeAdmin: the delete action of the administration site.
DeletePerfume(p) ==
    /\ p \in DOMAIN perfumes
    /\ perfumes' = [q \in DOMAIN perfumes \ {p} |-> perfumes[q]]
    /\ lastCall' = NoCall
    /\ repeatSame' = TRUE
    /\ UNCHANGED <<tagVars, accordTable, collation, surveys, cache, matches, jobs>>

\* populate_perfumes: Perfume.objects.update_or_create creating a row.
AddPerfume(kind) ==
    LET id == SetMax(DOMAIN perfumes \cup CachedIds \cup {0}) + 1
    IN /\ id <= MaxPerfumeId
       /\ perfumes' = [q \in DOMAIN perfumes \cup {id} |->
                          IF q = id THEN kind ELSE perfumes[q]]
       /\ lastCall' = NoCall
       /\ repeatSame' = TRUE
       /\ UNCHANGED <<tagVars, accordTable, collation, surveys, cache, matches, jobs>>

ChangesInit ==
    /\ perfumes \in Catalogs(MaxCachePerfumes)
    /\ accordTable = {"amber", "citrus", "woody"}
    /\ collation = "binary"
    /\ \E g \in {"male", "other"} :
          surveys = [u \in Users |->
                        IF u = "u1"
                        THEN [response_data |->
                                 [gender |-> JStr(g), citrus |-> JNum(5), amber |-> JNum(0)]]
                        ELSE NoSurvey]
    /\ cache = NoEntry
    /\ lastCall = NoCall
    /\ repeatSame = TRUE
    /\ matches = [u \in Users |-> NoRows]
    /\ jobs = [u \in Users |-> NoJob]
    /\ NoTagging

ChangesNext ==
    \/ \E p \in 1..MaxPerfumeId : DeletePerfume(p)
    \/ \E k \in DOMAIN PerfumeKinds : AddPerfume(PerfumeKinds[k])
    \/ ExpireCache
    \/ \E env \in CallEnvs(cache, perfumes, {"none"}) :
          GenerateRecommendations("u1", env)

SpecChanges == ChangesInit /\ [][ChangesNext]_vars

\* A call _get_all_accord_list().
CallGetAllAccordList(lookupFault) ==
    /\ lastCall' = [fn |-> "_get_all_accord_list",
                    fault |-> IF lookupFault THEN "accord_lookup" ELSE "none",
                    result |-> GetAllAccordList(accordTable, perfumes, collation,
                                                lookupFault)]
    /\ UNCHANGED <<tagVars, accordTable, perfumes, collation, surveys, cache, repeatSame,
                 matches, jobs>>

\* A call _get_perfume_accord_data().
CallGetPerfumeAccordData(env) ==
    LET data == GetPerfumeAccordData(cache, accordTable, perfumes, collation, env)
    IN /\ cache' = data.cache
       /\ lastCall' = [fn |-> "_get_perfume_accord_data", fault |-> env.fault,
                       hit |-> data.hit, db |-> env.db,
                       perfumes_df |-> data.perfumes_df,
                       accord_matrix_df |-> data.accord_matrix_df]
       /\ UNCHANGED <<tagVars, accordTable, perfumes, collation, surveys, repeatSame,
                 matches, jobs>>

\* A call _get_user_survey_vector_and_gender(u, all_accords), with the
\* vocabulary of the catalog as all_accords.
CallGetUserSurveyVectorAndGender(u) ==
    LET all_accords == GetAllAccordList(accordTable, perfumes, collation, FALSE)
    IN /\ lastCall' = [fn |-> "_get_user_survey_vector_and_gender", user |-> u,
                       all_accords |-> all_accords,
                       result |-> GetUserSurveyVectorAndGender(surveys[u], all_accords)]
       /\ UNCHANGED <<tagVars, accordTable, perfumes, collation, surveys, cache, repeatSame,
                 matches, jobs>>

\* SpecCatalog: the Accord table holds names that differ by case and a blank
\* name (Accord.name is unique as stored, populate_perfumes creates the rows
\* with get_or_create(name=name.strip())); some accords are attached to no
\* perfume; the database's collation is binary or linguistic.
AccordNames == {"", "Citrus", "amber", "citrus"}

CatalogRows(table) ==
    {[gender |-> "", accords |-> S, popularity |-> JNum(0),
      rating_count |-> JNum(0), overall_rating |-> JNull] : S \in SUBSET table}

CatalogInit ==
    /\ accordTable \in SUBSET AccordNames
    /\ \E n \in 0..MaxCatalogPerfumes : perfumes \in [1..n -> CatalogRows(accordTable)]
    /\ collation \in Collations
    /\ surveys = [u \in Users |-> NoSurvey]
    /\ cache = NoEntry
    /\ lastCall = NoCall
    /\ repeatSame = TRUE
    /\ matches = [u \in Users |-> NoRows]
    /\ jobs = [u \in Users |-> NoJob]
    /\ NoTagging

CatalogNext ==
    \/ \E lookupFault \in BOOLEAN : CallGetAllAccordList(lookupFault)
    \/ \E env \in CallEnvs(cache, perfumes, {"none", "cache_get", "accord_lookup"}) :
          CallGetPerfumeAccordData(env)

SpecCatalog == CatalogInit /\ [][CatalogNext]_vars

\* SpecVector: _get_user_survey_vector_and_gender on the survey of u1, whose
\* response_data is any JSON object the submit view stores, and the
\* vocabulary of a catalog of one perfume.
RatingValues ==
    {JNum(-2), JNum(-1), JNum(0), JNum(3), JNum(5), JNum(6), JStr("4"),
     JStr("other"), JNull}

Optional(key, values) ==
    {EmptyDict} \cup {[k \in {key} |-> v] : v \in values}

VectorSurveys ==
    {DictMerge(DictMerge(a, b), DictMerge(c, g)) :
        a \in Optional("citrus", RatingValues),
        b \in Optional("Citrus", {JNum(4)}),
        c \in Optional("amber", {JNum(5)}),
        g \in Optional("gender", {JStr("male"), JStr(""), JNum(1), JNull})}

VectorInit ==
    /\ accordTable = {"amber", "citrus"}
    /\ perfumes \in [1..1 -> CatalogRows(accordTable)]
    /\ collation = "binary"
    /\ \E sv \in {NoSurvey} \cup {[response_data |-> d] : d \in VectorSurveys} :
          surveys = [u \in Users |-> IF u = "u1" THEN sv ELSE NoSurvey]
    /\ cache = NoEntry
    /\ lastCall = NoCall
    /\ repeatSame = TRUE
    /\ matches = [u \in Users |-> NoRows]
    /\ jobs = [u \in Users |-> NoJob]
    /\ NoTagging

VectorNext == CallGetUserSurveyVectorAndGender("u1")

SpecVector == VectorInit /\ [][VectorNext]_vars

----------------------------------------------------------------------------
(* update_user_recommendations (tasks.py): the Celery job that stores the   *)
(* result of generate_recommendations in the UserPerfumeMatch rows of a     *)
(* user.  A stored match_percentage is a number of thousandths.             *)

\* @shared_task(bind=True, max_retries=3, ...)
MaxRetries == 3

\* The value a DecimalField(max_digits=4, decimal_places=3) stores for a
\* score: quantize to three places, rounding half to even; in thousandths.
Quantize3(score) ==
    LET q == (score.num * 1000) \div score.den
        rem == (score.num * 1000) % score.den
    IN IF 2 * rem < score.den THEN q
       ELSE IF 2 * rem > score.den THEN q + 1
       ELSE IF q % 2 = 0 THEN q ELSE q + 1

\* match_instance.match_percentage != Decimal(str(new_score))
StoredDiffers(stored, score) == stored * score.den # score.num * 1000

\* generate_recommendations(user) as the job calls it.  env.fault is "none",
\* "cache_get", or "survey_lookup": SurveyResponse.objects.get raises an
\* exception other than DoesNotExist, which the helper answers with
\* (None, None).
GenerateFor(u, env) ==
    LET data == GetPerfumeAccordData(cache, accordTable, perfumes, collation, env)
        r == Recommend(data.perfumes_df, data.accord_matrix_df, surveys[u])
    IN [value |-> IF env.fault = "survey_lookup" THEN None ELSE r.value,
        cache |-> data.cache]

\* perfume_scores = {pid: score for pid, score in recommendations}
PerfumeScores(list) ==
    [p \in {list[i].perfume_id : i \in DOMAIN list} |->
        LET i == CHOOSE k \in DOMAIN list :
                     /\ list[k].perfume_id = p
                     /\ \A m \in DOMAIN list : list[m].perfume_id = p => m <= k
        IN list[i].score]

\* The job system delivers update_user_recommendations(u).
SendJob(u) ==
    /\ jobs[u].pc \in {"idle", "done", "failed"}
    /\ jobs' = [jobs EXCEPT ![u] =
                  [pc |-> "queued", retries |-> 0, raised |-> 0,
                   gen_exception |-> FALSE, before |-> matches[u]]]
    /\ UNCHANGED <<tagVars, accordTable, perfumes, collation, surveys, cache, lastCall,
                   repeatSame, matches>>

\* Lines 21-32: the call of generate_recommendations and the None branch.
TaskGenerate(u, env) ==
    /\ jobs[u].pc = "queued"
    /\ LET gen == GenerateFor(u, env)
           job == [pc |-> "queued", retries |-> jobs[u].retries,
                   raised |-> jobs[u].raised,
                   gen_exception |-> env.fault # "none",
                   before |-> matches[u]]
       IN /\ cache' = gen.cache
          /\ jobs' = [jobs EXCEPT ![u] =
                IF gen.value = None
                THEN [pc |-> "done", report |-> "generation failed"] @@ job
                ELSE [pc |-> "generated", recommendations |-> gen.value.list] @@ job]
    /\ UNCHANGED <<tagVars, accordTable, perfumes, collation, surveys, lastCall,
                   repeatSame, matches>>

\* The empty list branch with a delete that is not filtered by user.
TaskClear_AllUsers(u) ==
    /\ jobs[u].pc = "generated"
    /\ jobs[u].recommendations = <<>>
    /\ matches' = [v \in Users |-> NoRows]
    /\ jobs' = [jobs EXCEPT ![u] =
                  [pc |-> "done", report |-> "no recommendations, cleared"] @@ @]
    /\ UNCHANGED <<tagVars, accordTable, perfumes, collation, surveys, cache, lastCall,
                   repeatSame>>

\* The empty list branch without the delete.
TaskClear_NoDelete(u) ==
    /\ jobs[u].pc = "generated"
    /\ jobs[u].recommendations = <<>>
    /\ jobs' = [jobs EXCEPT ![u] =
                  [pc |-> "done", report |-> "no recommendations, cleared"] @@ @]
    /\ UNCHANGED <<tagVars, accordTable, perfumes, collation, surveys, cache, lastCall,
                   repeatSame, matches>>

\* Lines 34-38: the empty list deletes the user's rows.
TaskClear(u) ==
    /\ jobs[u].pc = "generated"
    /\ jobs[u].recommendations = <<>>
    /\ matches' = [matches EXCEPT ![u] = NoRows]
    /\ jobs' = [jobs EXCEPT ![u] =
                  [pc |-> "done", report |-> "no recommendations, cleared"] @@ @]
    /\ UNCHANGED <<tagVars, accordTable, perfumes, collation, surveys, cache, lastCall,
                   repeatSame>>

\* Lines 43-79: the queries for the user's existing rows, and the lists of
\* rows to create and to update.
TaskReadExisting(u) ==
    /\ jobs[u].pc = "generated"
    /\ jobs[u].recommendations # <<>>
    /\ LET perfume_scores == PerfumeScores(jobs[u].recommendations)
           existing_matches_set == DOMAIN matches[u]
           to_create == DOMAIN perfume_scores \ existing_matches_set
           to_update == {p \in DOMAIN perfume_scores \cap existing_matches_set :
                            StoredDiffers(matches[u][p], perfume_scores[p])}
       IN jobs' = [jobs EXCEPT ![u] =
                     [pc |-> "read", to_create |-> to_create,
                      to_update |-> to_update] @@ @]
    /\ UNCHANGED <<tagVars, accordTable, perfumes, collation, surveys, cache, lastCall,
                   repeatSame, matches>>

\* Celery's self.retry(exc=exc): a new delivery while retries < max_retries,
\* the failure of the job after that.
Retry(job) ==
    IF job.retries < MaxRetries
    THEN [pc |-> "queued", retries |-> job.retries + 1, raised |-> job.raised + 1,
          gen_exception |-> job.gen_exception, before |-> job.before]
    ELSE [pc |-> "failed", retries |-> job.retries, raised |-> job.raised + 1,
          gen_exception |-> job.gen_exception, before |-> job.before]

\* Lines 82-96: the transaction.  bulk_create of a row that exists violates
\* unique_together: the transaction is rolled back and the exception reaches
\* the handler of line 109.
TaskCommit(u) ==
    /\ jobs[u].pc = "read"
    /\ LET perfume_scores == PerfumeScores(jobs[u].recommendations)
           job == jobs[u]
       IN IF job.to_create \cap DOMAIN matches[u] # {}
          THEN /\ jobs' = [jobs EXCEPT ![u] = Retry(job)]
               /\ UNCHANGED matches
          ELSE /\ matches' = [matches EXCEPT ![u] =
                     [p \in DOMAIN matches[u] \cup job.to_create |->
                        IF p \in job.to_create \/ p \in job.to_update
                        THEN Quantize3(perfume_scores[p])
                        ELSE matches[u][p]]]
               /\ jobs' = [jobs EXCEPT ![u] =
                     [pc |-> "done", report |-> "updated"] @@ job]
    /\ UNCHANGED <<tagVars, accordTable, perfumes, collation, surveys, cache, lastCall,
                   repeatSame>>

\* A query of the job itself raises (the database is unreachable): the
\* handler of line 109 calls self.retry.
TaskRaise(u) ==
    /\ jobs[u].pc \in {"queued", "generated", "read"}
    /\ jobs' = [jobs EXCEPT ![u] = Retry(jobs[u])]
    /\ UNCHANGED <<tagVars, accordTable, perfumes, collation, surveys, cache, lastCall,
                   repeatSame, matches>>

\* SpecTask: jobs of the two users, in any interleaving, with faults, on a
\* catalog that does not change.
TaskCatalogs ==
    {<<PerfumeKinds[1], PerfumeKinds[3], PerfumeKinds[4]>>, <<PerfumeKinds[1]>>}

TaskSurveys(u) ==
    IF u = "u1"
    THEN {NoSurvey,
          [response_data |->
              [gender |-> JStr("male"), citrus |-> JNum(5), amber |-> JNum(0)]]}
    ELSE {[response_data |->
              [gender |-> JStr("unisex"), citrus |-> JNum(5), amber |-> JNum(0)]]}

InitialRows == {NoRows, (1 :> 500) @@ (2 :> 250)}

TaskInit ==
    /\ perfumes \in TaskCatalogs
    /\ accordTable = {"amber", "citrus", "woody"}
    /\ collation = "binary"
    /\ surveys \in {f \in [Users -> UNION {TaskSurveys(u) : u \in Users}] :
                       \A u \in Users : f[u] \in TaskSurveys(u)}
    /\ cache = NoEntry
    /\ lastCall = NoCall
    /\ repeatSame = TRUE
    /\ matches \in [Users -> InitialRows]
    /\ jobs = [u \in Users |-> NoJob]
    /\ NoTagging

TaskNext ==
    \/ \E u \in Users : SendJob(u)
    \/ \E u \in Users :
          \E env \in CallEnvs(cache, perfumes, {"none", "cache_get", "survey_lookup"}) :
             TaskGenerate(u, env)
    \/ \E u \in Users : TaskClear(u)
    \/ \E u \in Users : TaskReadExisting(u)
    \/ \E u \in Users : TaskCommit(u)
    \/ \E u \in Users : TaskRaise(u)
    \/ ExpireCache

SpecTask == TaskInit /\ [][TaskNext]_vars

\* SpecConcurrent: two deliveries of update_user_recommendations for the
\* same user, after two submissions of that user's survey, in any
\* interleaving of their steps, within the life of one cache entry.  jobs maps each delivery to its state, and
\* matches[u] is the sequence of the user's UserPerfumeMatch rows, so that
\* two rows of one perfume can be told from one.
Deliveries == {"j1", "j2"}

SubmittingUser == "u1"

RowIds(rows) == {rows[i].perfume_id : i \in DOMAIN rows}

\* Lines 21-32 for delivery j.
JobGenerate(j, env) ==
    /\ jobs[j].pc = "queued"
    /\ LET gen == GenerateFor(SubmittingUser, env)
           job == [pc |-> "queued", retries |-> jobs[j].retries,
                   raised |-> jobs[j].raised, gen_exception |-> FALSE,
                   before |-> matches[SubmittingUser]]
       IN /\ cache' = gen.cache
          /\ jobs' = [jobs EXCEPT ![j] =
                IF gen.value = None
                THEN [pc |-> "done", report |-> "generation failed"] @@ job
                ELSE [pc |-> "generated", recommendations |-> gen.value.list] @@ job]
    /\ UNCHANGED <<tagVars, accordTable, perfumes, collation, surveys, lastCall,
                   repeatSame, matches>>

\* Lines 34-38 for delivery j.
JobClear(j) ==
    /\ jobs[j].pc = "generated"
    /\ jobs[j].recommendations = <<>>
    /\ matches' = [matches EXCEPT ![SubmittingUser] = <<>>]
    /\ jobs' = [jobs EXCEPT ![j] =
                  [pc |-> "done", report |-> "no recommendations, cleared"] @@ @]
    /\ UNCHANGED <<tagVars, accordTable, perfumes, collation, surveys, cache, lastCall,
                   repeatSame>>

\* Lines 43-79 for delivery j: update_instances are the rows fetched now,
\* and those whose value differs are changed in memory.
JobReadExisting(j) ==
    /\ jobs[j].pc = "generated"
    /\ jobs[j].recommendations # <<>>
    /\ LET rows == matches[SubmittingUser]
           perfume_scores == PerfumeScores(jobs[j].recommendations)
           existing_matches_set == RowIds(rows)
           to_create == DOMAIN perfume_scores \ existing_matches_set
           to_update ==
               {p \in DOMAIN perfume_scores \cap existing_matches_set :
                   \E i \in DOMAIN rows :
                       /\ rows[i].perfume_id = p
                       /\ StoredDiffers(rows[i].match_percentage, perfume_scores[p])}
       IN jobs' = [jobs EXCEPT ![j] =
                     [pc |-> "read", to_create |-> to_create,
                      to_update |-> to_update] @@ @]
    /\ UNCHANGED <<tagVars, accordTable, perfumes, collation, surveys, cache, lastCall,
                   repeatSame, matches>>

\* Lines 82-96 for delivery j.  bulk_create of a row whose (user, perfume)
\* exists violates unique_together: the transaction is rolled back and the
\* handler of line 109 retries.  bulk_update writes the rows that still
\* exist.
JobCommit(j) ==
    /\ jobs[j].pc = "read"
    /\ LET rows == matches[SubmittingUser]
           job == jobs[j]
           perfume_scores == PerfumeScores(job.recommendations)
           created ==
               LET new == SelectSeq(job.recommendations,
                                    LAMBDA r : r.perfume_id \in job.to_create)
               IN [i \in DOMAIN new |->
                      [perfume_id |-> new[i].perfume_id,
                       match_percentage |-> Quantize3(perfume_scores[new[i].perfume_id])]]
           updated ==
               [i \in DOMAIN rows |->
                   IF rows[i].perfume_id \in job.to_update
                   THEN [rows[i] EXCEPT !.match_percentage =
                            Quantize3(perfume_scores[rows[i].perfume_id])]
                   ELSE rows[i]]
       IN IF job.to_create \cap RowIds(rows) # {}
          THEN /\ jobs' = [jobs EXCEPT ![j] = Retry(job)]
               /\ UNCHANGED matches
          ELSE /\ matches' = [matches EXCEPT ![SubmittingUser] = updated \o created]
               /\ jobs' = [jobs EXCEPT ![j] =
                     [pc |-> "done", report |-> "updated"] @@ job]
    /\ UNCHANGED <<tagVars, accordTable, perfumes, collation, surveys, cache, lastCall,
                   repeatSame>>

ConcurrentSurveys ==
    {[response_data |-> [gender |-> JStr(g), citrus |-> JNum(5), amber |-> JNum(0)]] :
        g \in {"male", "female"}}

ConcurrentRows ==
    {<<>>,
     <<[perfume_id |-> 1, match_percentage |-> 500]>>,
     <<[perfume_id |-> 1, match_percentage |-> 500],
       [perfume_id |-> 2, match_percentage |-> 250],
       [perfume_id |-> 3, match_percentage |-> 1000]>>}

ConcurrentInit ==
    /\ perfumes \in TaskCatalogs
    /\ accordTable = {"amber", "citrus", "woody"}
    /\ collation = "binary"
    /\ \E sv \in ConcurrentSurveys :
          surveys = [u \in Users |-> IF u = SubmittingUser THEN sv ELSE NoSurvey]
    /\ cache = NoEntry
    /\ lastCall = NoCall
    /\ repeatSame = TRUE
    /\ \E rows \in ConcurrentRows :
          /\ RowIds(rows) \subseteq DOMAIN perfumes
          /\ matches = [u \in Users |-> IF u = SubmittingUser THEN rows ELSE <<>>]
    /\ jobs = [j \in Deliveries |->
                  [pc |-> "queued", retries |-> 0, raised |-> 0,
                   gen_exception |-> FALSE, before |-> matches[SubmittingUser]]]
    /\ NoTagging

ConcurrentNext ==
    \/ \E j \in Deliveries :
          \E env \in CallEnvs(cache, perfumes, {"none"}) : JobGenerate(j, env)
    \/ \E j \in Deliveries : JobClear(j)
    \/ \E j \in Deliveries : JobReadExisting(j)
    \/ \E j \in Deliveries : JobCommit(j)

SpecConcurrent == ConcurrentInit /\ [][ConcurrentNext]_vars

----------------------------------------------------------------------------
(* AccordOccasionClassifier (utils/occasion_classifier.py).  The base      *)
(* weights, the scores and score_threshold are in tenths (3.0 -> 30); an   *)
(* accord of a perfume is the pair <<accord_name, position>>.              *)

ACCORD_OCCASION_MAP ==
    "Deporte" :>
       (("fresh" :> 30) @@ ("citrus" :> 30) @@ ("aquatic" :> 30) @@
        ("aromatic" :> 25) @@ ("green" :> 25) @@ ("herbal" :> 25) @@
        ("marine" :> 30) @@ ("ozonic" :> 25) @@ ("fruity" :> 15) @@
        ("woody" :> 10)) @@
    "Oficina" :>
       (("powdery" :> 30) @@ ("woody" :> 25) @@ ("iris" :> 25) @@
        ("soft spicy" :> 25) @@ ("musky" :> 20) @@ ("fresh spicy" :> 20) @@
        ("fresh" :> 20) @@ ("aromatic" :> 20) @@ ("citrus" :> 15) @@
        ("amber" :> 15) @@ ("floral" :> 15) @@ ("violet" :> 20)) @@
    "Casual" :>
       (("fruity" :> 30) @@ ("sweet" :> 25) @@ ("vanilla" :> 25) @@
        ("citrus" :> 25) @@ ("fresh" :> 25) @@ ("aromatic" :> 20) @@
        ("floral" :> 20) @@ ("green" :> 20) @@ ("lavender" :> 20) @@
        ("coconut" :> 25)) @@
    "Fiesta" :>
       (("sweet" :> 30) @@ ("fruity" :> 25) @@ ("caramel" :> 30) @@
        ("cacao" :> 30) @@ ("rum" :> 30) @@ ("warm spicy" :> 25) @@
        ("amber" :> 20) @@ ("vanilla" :> 25) @@ ("chocolate" :> 30) @@
        ("coffee" :> 25) @@ ("honey" :> 25) @@ ("almond" :> 25)) @@
    "Sexy" :>
       (("animalic" :> 30) @@ ("leather" :> 30) @@ ("oud" :> 25) @@
        ("amber" :> 25) @@ ("warm spicy" :> 25) @@ ("musky" :> 25) @@
        ("sweet" :> 20) @@ ("vanilla" :> 20) @@ ("oriental" :> 25) @@
        ("spicy" :> 25) @@ ("smoky" :> 20) @@ ("patchouli" :> 20)) @@
    "Formal" :>
       (("woody" :> 30) @@ ("oud" :> 30) @@ ("leather" :> 25) @@
        ("powdery" :> 25) @@ ("iris" :> 30) @@ ("smoky" :> 25) @@
        ("tobacco" :> 30) @@ ("amber" :> 20) @@ ("rose" :> 20) @@
        ("incense" :> 25) @@ ("vetiver" :> 25) @@ ("cedar" :> 25)) @@
    "Especial" :>
       (("rose" :> 30) @@ ("white floral" :> 30) @@ ("iris" :> 25) @@
        ("violet" :> 25) @@ ("jasmine" :> 30) @@ ("tuberose" :> 30) @@
        ("ylang-ylang" :> 25) @@ ("narcissus" :> 25) @@
        ("orange blossom" :> 25) @@ ("orchid" :> 25) @@ ("gardenia" :> 25))

\* The keys of ACCORD_OCCASION_MAP in the order of the dict.
OccasionOrder ==
    <<"Deporte", "Oficina", "Casual", "Fiesta", "Sexy", "Formal", "Especial">>

\* __init__: the three fields of the object.
AccordOccasionClassifier(min_occasions, max_occasions, score_threshold) ==
    [min_occasions |-> min_occasions, max_occasions |-> max_occasions,
     score_threshold |-> score_threshold]

\* position_weight = max(3 - position, 1)
PositionWeight(position) == IF 3 - position > 1 THEN 3 - position ELSE 1

\* accord_name.lower() in accord_weights
Matches(accord, occasion) ==
    Lower(accord[1]) \in DOMAIN ACCORD_OCCASION_MAP[occasion]

\* occasion_scores: the occasions that got a score, and their scores.
OccasionScores(accords) ==
    LET scored == {o \in DOMAIN ACCORD_OCCASION_MAP :
                      \E i \in DOMAIN accords : Matches(accords[i], o)}
    IN [o \in scored |->
           SumSeq([i \in DOMAIN accords |->
                      IF Matches(accords[i], o)
                      THEN ACCORD_OCCASION_MAP[o][Lower(accords[i][1])]
                              * PositionWeight(accords[i][2])
                      ELSE 0])]

\* The place of an occasion among the keys of occasion_scores: a key is
\* inserted by the first accord that matches it, and one accord inserts its
\* occasions in the order of ACCORD_OCCASION_MAP.
InsertionRank(accords, occasion) ==
    LET first == SetMin({i \in DOMAIN accords : Matches(accords[i], occasion)})
    IN first * 10 + IndexOf(OccasionOrder, occasion)

\* sorted without reverse=True: the lowest score first.
SortedOccasions_Ascending(accords) ==
    LET occasion_scores == OccasionScores(accords)
        n == Cardinality(DOMAIN occasion_scores)
    IN CHOOSE s \in [1..n -> DOMAIN occasion_scores] :
          /\ \A o \in DOMAIN occasion_scores : \E i \in 1..n : s[i] = o
          /\ \A i, j \in 1..n : i < j => occasion_scores[s[i]] <= occasion_scores[s[j]]

\* sorted(occasion_scores.items(), key=score, reverse=True): the sort is
\* stable, so occasions of equal score keep the order of the dict.
RECURSIVE SortedFrom(_, _, _)
SortedFrom(rest, accords, occasion_scores) ==
    IF rest = {} THEN <<>>
    ELSE LET top == CHOOSE a \in rest : \A b \in rest \ {a} :
                       \/ occasion_scores[a] > occasion_scores[b]
                       \/ /\ occasion_scores[a] = occasion_scores[b]
                          /\ InsertionRank(accords, a) < InsertionRank(accords, b)
         IN <<top>> \o SortedFrom(rest \ {top}, accords, occasion_scores)

SortedOccasions(accords) ==
    SortedFrom(DOMAIN OccasionScores(accords), accords, OccasionScores(accords))

\* The first loop: the occasions at or above score_threshold, while there
\* is room.
RECURSIVE SelectAbove(_, _, _, _)
SelectAbove(self, sorted_occasions, occasion_scores, selected_occasions) ==
    IF sorted_occasions = <<>> THEN selected_occasions
    ELSE LET occasion == Head(sorted_occasions)
             take == /\ occasion_scores[occasion] >= self.score_threshold
                     /\ Len(selected_occasions) < self.max_occasions
         IN SelectAbove(self, Tail(sorted_occasions), occasion_scores,
                        IF take THEN Append(selected_occasions, occasion)
                        ELSE selected_occasions)

\* The second loop: occasions at or above lower_threshold, which is
\* score_threshold * 0.6, until min_occasions are selected.  The thresholds
\* of the model are those whose product with 0.6 the float computes without
\* passing a multiple of 0.5, so the comparison is the exact one.
RECURSIVE Backfill(_, _, _, _)
Backfill(self, sorted_occasions, occasion_scores, selected_occasions) ==
    IF sorted_occasions = <<>> THEN selected_occasions
    ELSE LET occasion == Head(sorted_occasions)
             take == /\ occasion \notin Range(selected_occasions)
                     /\ occasion_scores[occasion] * 10 >= self.score_threshold * 6
             next == IF take THEN Append(selected_occasions, occasion)
                     ELSE selected_occasions
         IN IF take /\ Len(next) >= self.min_occasions THEN next
            ELSE Backfill(self, Tail(sorted_occasions), occasion_scores, next)

\* _is_travel_suitable without the test of versatile accords.
IsTravelSuitable_NoVersatileTest(accords, occasion_scores, selected_occasions) ==
    IF accords = <<>> \/ Len(selected_occasions) < 2 THEN FALSE
    ELSE LET has_polarizing_primary ==
                 Lower(accords[1][1])
                    \in {"oud", "leather", "animalic", "tobacco", "smoky"}
             ranked == SortedOccasions(accords)
         IN IF has_polarizing_primary THEN FALSE
            ELSE IF Cardinality(DOMAIN occasion_scores) >= 3
            THEN 2 * occasion_scores[ranked[3]] >= occasion_scores[ranked[1]]
            ELSE FALSE

\* _is_travel_suitable without the test of the primary accord.
IsTravelSuitable_NoPolarizingTest(accords, occasion_scores, selected_occasions) ==
    IF accords = <<>> \/ Len(selected_occasions) < 2 THEN FALSE
    ELSE LET top_accord_names ==
                 {Lower(accords[i][1]) : i \in 1..Min(3, Len(accords))}
             has_versatile ==
                 Cardinality(top_accord_names
                                \cap {"fresh", "citrus", "aromatic", "woody"}) >= 2
         IN IF Cardinality(DOMAIN occasion_scores) >= 3
            THEN LET sorted_scores ==
                         SortedFrom(DOMAIN occasion_scores, accords, occasion_scores)
                     top_score == occasion_scores[sorted_scores[1]]
                     third_score == occasion_scores[sorted_scores[3]]
                     is_balanced ==
                         IF top_score > 0 THEN 2 * third_score >= top_score ELSE FALSE
                 IN has_versatile /\ is_balanced
            ELSE FALSE

\* _is_travel_suitable
IsTravelSuitable(accords, occasion_scores, selected_occasions) ==
    IF accords = <<>> \/ Len(selected_occasions) < 2 THEN FALSE
    ELSE LET top_accord_names ==
                 {Lower(accords[i][1]) : i \in 1..Min(3, Len(accords))}
             has_versatile ==
                 Cardinality(top_accord_names
                                \cap {"fresh", "citrus", "aromatic", "woody"}) >= 2
             has_polarizing_primary ==
                 Lower(accords[1][1])
                    \in {"oud", "leather", "animalic", "tobacco", "smoky"}
         IN IF has_polarizing_primary THEN FALSE
            ELSE IF Cardinality(DOMAIN occasion_scores) >= 3
            THEN LET sorted_scores ==
                         SortedFrom(DOMAIN occasion_scores, accords, occasion_scores)
                     top_score == occasion_scores[sorted_scores[1]]
                     third_score == occasion_scores[sorted_scores[3]]
                     is_balanced ==
                         IF top_score > 0 THEN 2 * third_score >= top_score ELSE FALSE
                 IN has_versatile /\ is_balanced
            ELSE FALSE

\* classify_perfume without the default when nothing was selected.
ClassifyPerfume_NoDefault(self, accords) ==
    IF accords = <<>> THEN <<"Casual">>
    ELSE LET occasion_scores == OccasionScores(accords)
             sorted_occasions == SortedOccasions(accords)
             above == SelectAbove(self, sorted_occasions, occasion_scores, <<>>)
             selected_occasions ==
                 IF Len(above) < self.min_occasions
                 THEN Backfill(self, sorted_occasions, occasion_scores, above)
                 ELSE above
         IN IF /\ IsTravelSuitable(accords, occasion_scores, selected_occasions)
               /\ Len(selected_occasions) < self.max_occasions
            THEN Append(selected_occasions, "Viaje")
            ELSE selected_occasions

\* classify_perfume without the second loop.
ClassifyPerfume_NoBackfill(self, accords) ==
    IF accords = <<>> THEN <<"Casual">>
    ELSE LET occasion_scores == OccasionScores(accords)
             sorted_occasions == SortedOccasions(accords)
             above == SelectAbove(self, sorted_occasions, occasion_scores, <<>>)
             selected_occasions == IF above = <<>> THEN <<"Casual">> ELSE above
         IN IF /\ IsTravelSuitable(accords, occasion_scores, selected_occasions)
               /\ Len(selected_occasions) < self.max_occasions
            THEN Append(selected_occasions, "Viaje")
            ELSE selected_occasions

\* classify_perfume that appends 'Viaje' without looking for room.
ClassifyPerfume_NoRoomTest(self, accords) ==
    IF accords = <<>> THEN <<"Casual">>
    ELSE LET occasion_scores == OccasionScores(accords)
             sorted_occasions == SortedOccasions(accords)
             above == SelectAbove(self, sorted_occasions, occasion_scores, <<>>)
             filled == IF Len(above) < self.min_occasions
                       THEN Backfill(self, sorted_occasions, occasion_scores, above)
                       ELSE above
             selected_occasions == IF filled = <<>> THEN <<"Casual">> ELSE filled
         IN IF IsTravelSuitable(accords, occasion_scores, selected_occasions)
            THEN Append(selected_occasions, "Viaje")
            ELSE selected_occasions

\* classify_perfume
ClassifyPerfume(self, accords) ==
    IF accords = <<>> THEN <<"Casual">>
    ELSE LET occasion_scores == OccasionScores(accords)
             sorted_occasions == SortedOccasions(accords)
             above == SelectAbove(self, sorted_occasions, occasion_scores, <<>>)
             filled == IF Len(above) < self.min_occasions
                       THEN Backfill(self, sorted_occasions, occasion_scores, above)
                       ELSE above
             selected_occasions == IF filled = <<>> THEN <<"Casual">> ELSE filled
         IN IF /\ IsTravelSuitable(accords, occasion_scores, selected_occasions)
               /\ Len(selected_occasions) < self.max_occasions
            THEN Append(selected_occasions, "Viaje")
            ELSE selected_occasions

\* SpecClassifier: a classifier object of one of the configurations, an
\* accord list of at most MaxAccords accords, and calls of classify_perfume
\* with that list.
Configurations ==
    {AccordOccasionClassifier(1, 3, 40), AccordOccasionClassifier(1, 1, 40),
     AccordOccasionClassifier(2, 3, 50), AccordOccasionClassifier(3, 3, 80)}

ClassifierAccordNames == {"fresh", "citrus", "woody", "oud", "Oud", "musk"}

AccordLists(max) ==
    UNION {[1..n -> ClassifierAccordNames \X {0, 2}] : n \in 0..max}

CallClassifyPerfume ==
    /\ lastCall.fn = "classify_perfume"
    /\ LET result == ClassifyPerfume(classifier, lastCall.accords)
       IN /\ lastCall' = [lastCall EXCEPT !.result = Some(result)]
          /\ repeatSame' = IF lastCall.result = None THEN TRUE
                           ELSE lastCall.result = Some(result)
    /\ UNCHANGED <<tagVars, accordTable, perfumes, collation, surveys, cache,
                   matches, jobs>>

ClassifierInit ==
    /\ perfumes = <<>>
    /\ accordTable = {}
    /\ collation = "binary"
    /\ surveys = [u \in Users |-> NoSurvey]
    /\ cache = NoEntry
    /\ lastCall \in {[fn |-> "classify_perfume", accords |-> a, result |-> None] :
                        a \in AccordLists(MaxAccords)}
    /\ repeatSame = TRUE
    /\ matches = [u \in Users |-> NoRows]
    /\ jobs = [u \in Users |-> NoJob]
    /\ classifier \in Configurations
    /\ accordOrder = <<>>
    /\ occasionTable = <<>>
    /\ perfumeOccasions = <<>>
    /\ pricePerML = <<>>

ClassifierNext == CallClassifyPerfume

SpecClassifier == ClassifierInit /\ [][ClassifierNext]_vars

----------------------------------------------------------------------------
(* The command reclassify_occasions (management/commands).                 *)

\* accords_with_positions uses ordered_accords[:5].
TopAccords == 5

\* Perfume.get_ordered_accords: the accords of the perfume by the order of
\* its PerfumeAccordOrder rows.
GetOrderedAccords(p) == accordOrder[p]

\* [(accord.name, idx) for idx, accord in enumerate(ordered_accords[:5])]
AccordsWithPositions(ordered_accords) ==
    [i \in 1..Min(TopAccords, Len(ordered_accords)) |-> <<ordered_accords[i], i - 1>>]

\* perfume.occasions.values_list('name', flat=True), as a set
CurrentOccasions(p) == {occasionTable[i] : i \in perfumeOccasions[p]}

\* The accord lists of the perfumes of the model: the last one has a sixth
\* accord that would change its labels.
TaggedKinds ==
    {<<>>, <<"Citrus", "fresh">>, <<"Oud", "woody">>,
     <<"musk", "musk", "musk", "musk", "musk", "fresh">>}

\* classifier.classify_perfume(accords_with_positions) of the command's
\* classifier, for each accord list of the model
ClassifiedKinds ==
    [ordered_accords \in TaggedKinds |->
        ClassifyPerfume(AccordOccasionClassifier(1, 3, 40),
                        AccordsWithPositions(ordered_accords))]

NewOccasionNames(p) == ClassifiedKinds[GetOrderedAccords(p)]

\* The perfumes of the loop: all of them, or with --limit the first `limit`
\* rows of a queryset that has no order.
ProcessedSets(limit) ==
    IF limit = None \/ limit = Some(0) THEN {DOMAIN accordOrder}
    ELSE {S \in SUBSET DOMAIN accordOrder :
             Cardinality(S) = Min(limit.some, Len(accordOrder))}

\* The apply step that adds the new occasions without clearing the old ones.
ApplyChanges_NoClear(changes, table) ==
    [p \in DOMAIN perfumeOccasions |->
        IF p \in changes
        THEN perfumeOccasions[p]
                \cup {IndexOf(table, NewOccasionNames(p)[i]) :
                         i \in DOMAIN NewOccasionNames(p)}
        ELSE perfumeOccasions[p]]

\* perfume.occasions.clear() and .add() for every perfume of changes
ApplyChanges(changes, table) ==
    [p \in DOMAIN perfumeOccasions |->
        IF p \in changes
        THEN {IndexOf(table, NewOccasionNames(p)[i]) : i \in DOMAIN NewOccasionNames(p)}
        ELSE perfumeOccasions[p]]

\* handle: one run of the command.  An empty set of perfumes ends the run
\* with ZeroDivisionError in the statistics, before anything is applied.
\* The Occasion rows are created in the order of a Python set of names,
\* which is any order.
Reclassify(dry_run, limit) ==
    \E processed \in ProcessedSets(limit) :
       LET changes == {p \in processed :
                          CurrentOccasions(p) # Range(NewOccasionNames(p))}
           all_occasions ==
               UNION {CurrentOccasions(p) \cup Range(NewOccasionNames(p)) :
                         p \in processed}
           raised == processed = {}
           full == ~raised /\ ~dry_run /\ processed = DOMAIN accordOrder
           record == [fn |-> "reclassify_occasions", dry_run |-> dry_run,
                      limit |-> limit, raised |-> raised,
                      changes |-> changes,
                      labels |-> [p \in processed |-> NewOccasionNames(p)],
                      before |-> perfumeOccasions,
                      table_before |-> occasionTable,
                      after_full_run |->
                          /\ lastCall.fn = "reclassify_occasions"
                          /\ lastCall.after_full_run \/ lastCall.full,
                      full |-> full]
       IN /\ lastCall' = record
          /\ IF raised \/ dry_run
             THEN UNCHANGED <<occasionTable, perfumeOccasions>>
             ELSE \E created \in Perms(all_occasions \ Range(occasionTable)) :
                     /\ occasionTable' = occasionTable \o created
                     /\ perfumeOccasions' = ApplyChanges(changes, occasionTable')
          /\ UNCHANGED <<classifier, accordOrder, pricePerML, accordTable, perfumes,
                         collation, surveys, cache, repeatSame, matches, jobs>>

\* SpecReclassify: a catalog of at most MaxTagged perfumes whose accords
\* are in order, with the occasions an import gave them, and runs of the
\* command.

ImportedTables == {<<>>, <<"Casual", "Noche">>}

ReclassifyInit ==
    /\ perfumes = <<>>
    /\ accordTable = {}
    /\ collation = "binary"
    /\ surveys = [u \in Users |-> NoSurvey]
    /\ cache = NoEntry
    /\ lastCall = NoCall
    /\ repeatSame = TRUE
    /\ matches = [u \in Users |-> NoRows]
    /\ jobs = [u \in Users |-> NoJob]
    /\ classifier = AccordOccasionClassifier(1, 3, 40)
    /\ accordOrder \in UNION {[1..n -> TaggedKinds] : n \in 0..MaxTagged}
    /\ occasionTable \in ImportedTables
    /\ perfumeOccasions \in [DOMAIN accordOrder -> SUBSET DOMAIN occasionTable]
    /\ pricePerML = <<>>

ReclassifyNext ==
    \E dry_run \in BOOLEAN, limit \in {None, Some(1)} : Reclassify(dry_run, limit)

SpecReclassify == ReclassifyInit /\ [][ReclassifyNext]_vars

----------------------------------------------------------------------------
(* get_occasion_summary, and the classifier on ranked accords.             *)

\* The inner loop of get_occasion_summary for one accord: every occasion
\* whose table has the accord gets base_weight * position_weight added,
\* from 0.0 when it has no score yet.
RECURSIVE AddAccord(_, _, _)
AddAccord(accord, occasions, occasion_scores) ==
    IF occasions = <<>> THEN occasion_scores
    ELSE LET occasion == Head(occasions)
             accord_weights == ACCORD_OCCASION_MAP[occasion]
             position_weight == PositionWeight(accord[2])
         IN AddAccord(accord, Tail(occasions),
                IF Lower(accord[1]) \in DOMAIN accord_weights
                THEN DictMerge(occasion_scores,
                        occasion :> (DictGet(occasion_scores, occasion, 0)
                                        + accord_weights[Lower(accord[1])]
                                             * position_weight))
                ELSE occasion_scores)

\* The outer loop of get_occasion_summary.
RECURSIVE AddAccords(_, _)
AddAccords(accords, occasion_scores) ==
    IF accords = <<>> THEN occasion_scores
    ELSE AddAccords(Tail(accords),
                    AddAccord(Head(accords), OccasionOrder, occasion_scores))

\* get_occasion_summary with the position weight of rank 2 for every accord.
GetOccasionSummary_NoPositionWeight(accords) ==
    AddAccords([i \in DOMAIN accords |-> <<accords[i][1], 2>>], [o \in {} |-> 0])

\* get_occasion_summary
GetOccasionSummary(accords) == AddAccords(accords, [o \in {} |-> 0])

CallGetOccasionSummary ==
    /\ lastCall.fn = "get_occasion_summary"
    /\ LET result == GetOccasionSummary(lastCall.accords)
       IN /\ lastCall' = [lastCall EXCEPT !.result = Some(result)]
          /\ repeatSame' = IF lastCall.result = None THEN TRUE
                           ELSE lastCall.result = Some(result)
    /\ UNCHANGED <<tagVars, accordTable, perfumes, collation, surveys, cache,
                   matches, jobs>>

\* SpecRanked: the accords of one perfume in order, at most MaxRanked of
\* them, given their list positions as ranks the way the command does, and
\* calls of classify_perfume and of get_occasion_summary with them.
RankedAccordNames == {"fresh", "citrus", "aromatic", "woody", "Oud", "musk"}

RankedLists(max) ==
    {AccordsWithPositions(names) :
        names \in UNION {[1..n -> RankedAccordNames] : n \in 0..max}}

RankedInit ==
    /\ perfumes = <<>>
    /\ accordTable = {}
    /\ collation = "binary"
    /\ surveys = [u \in Users |-> NoSurvey]
    /\ cache = NoEntry
    /\ lastCall \in {[fn |-> f, accords |-> a, result |-> None] :
                        f \in {"classify_perfume", "get_occasion_summary"},
                        a \in RankedLists(MaxRanked)}
    /\ repeatSame = TRUE
    /\ matches = [u \in Users |-> NoRows]
    /\ jobs = [u \in Users |-> NoJob]
    /\ classifier \in Configurations
    /\ accordOrder = <<>>
    /\ occasionTable = <<>>
    /\ perfumeOccasions = <<>>
    /\ pricePerML = <<>>

RankedNext ==
    \/ CallClassifyPerfume
    \/ CallGetOccasionSummary

SpecRanked == RankedInit /\ [][RankedNext]_vars

----------------------------------------------------------------------------
(* The recommendations listing: UserPerfumeMatchFilter (filters.py) over   *)
(* the matches of the user who asks.  A queryset is the set of its rows;   *)
(* a row is [perfume |-> id, occasion |-> 0], or after the join with the   *)
(* occasions of the perfume [perfume |-> id, occasion |-> occasion id].    *)
(* A price is a whole number; the value of `occasions` is the sequence of  *)
(* the pieces between its commas.                                          *)

ValueError == [raised |-> "ValueError"]

\* str.strip() of the pieces the model uses
Strip(s) ==
    CASE s = " 1" -> "1"
      [] s = "2 " -> "2"
      [] OTHER -> s

\* int(s) of a stripped piece: the pieces that are numbers, and their
\* values; int raises ValueError for any other piece
IsIntLiteral(s) == s \in {"1", "2", "3"}
ParseInt(s) ==
    CASE s = "1" -> 1
      [] s = "2" -> 2
      [] s = "3" -> 3

\* [int(oid.strip()) for oid in value.split(',') if oid.strip()]
OccasionIds(value) ==
    LET pieces == SelectSeq(value, LAMBDA oid : Strip(oid) # "")
    IN IF \E i \in DOMAIN pieces : ~IsIntLiteral(Strip(pieces[i]))
       THEN ValueError
       ELSE Some([i \in DOMAIN pieces |-> ParseInt(Strip(pieces[i]))])

\* UserPerfumeMatch.objects.filter(user=user)
UserMatches(u) == {[perfume |-> p, occasion |-> 0] : p \in DOMAIN matches[u]}

\* price_min: perfume__pricePerML >= value; a perfume without price is
\* not in the result
PriceMin(queryset, value) ==
    IF value = None THEN queryset
    ELSE {r \in queryset :
             /\ pricePerML[r.perfume] # None
             /\ pricePerML[r.perfume].some >= value.some}

\* price_max: perfume__pricePerML <= value
PriceMax(queryset, value) ==
    IF value = None THEN queryset
    ELSE {r \in queryset :
             /\ pricePerML[r.perfume] # None
             /\ pricePerML[r.perfume].some <= value.some}

\* .filter(perfume__occasions__id__in=occasion_ids): one row for every
\* occasion of the perfume that is among the ids
JoinOccasions(queryset, occasion_ids) ==
    UNION {{[perfume |-> r.perfume, occasion |-> o] :
               o \in perfumeOccasions[r.perfume] \cap Range(occasion_ids)} :
              r \in queryset}

\* .distinct(): the rows of the matches, each once
Distinct(queryset) == {[perfume |-> r.perfume, occasion |-> 0] : r \in queryset}

\* filter_perfume_occasions without .distinct()
FilterPerfumeOccasions_NoDistinct(queryset, value) ==
    IF value = None THEN queryset
    ELSE LET occasion_ids == OccasionIds(value.some)
         IN IF occasion_ids = ValueError THEN queryset
            ELSE IF occasion_ids.some # <<>>
            THEN JoinOccasions(queryset, occasion_ids.some)
            ELSE queryset

\* filter_perfume_occasions; django-filter does not call it when the
\* request has no value for `occasions`
FilterPerfumeOccasions(queryset, value) ==
    IF value = None THEN queryset
    ELSE LET occasion_ids == OccasionIds(value.some)
         IN IF occasion_ids = ValueError THEN queryset
            ELSE IF occasion_ids.some # <<>>
            THEN Distinct(JoinOccasions(queryset, occasion_ids.some))
            ELSE queryset

\* UserPerfumeMatchFilter: the three filters of the request, one after the
\* other
UserPerfumeMatchFilter(queryset, request) ==
    FilterPerfumeOccasions(
        PriceMax(PriceMin(queryset, request.price_min), request.price_max),
        request.occasions)

\* The view of the listing: the filtered matches of the user by score,
\* highest first; rows of equal score come in any order.
RecommendationLists(u, request) ==
    LET rows == UserPerfumeMatchFilter(UserMatches(u), request)
    IN {[i \in DOMAIN s |-> s[i].perfume] :
           s \in {t \in Perms(rows) :
                     \A i, j \in DOMAIN t :
                        i < j => matches[u][t[i].perfume] >= matches[u][t[j].perfume]}}

ListRecommendations(u, request) ==
    /\ \E results \in RecommendationLists(u, request) :
          lastCall' = [fn |-> "list_recommendations", user |-> u,
                       request |-> request, results |-> results]
    /\ UNCHANGED <<tagVars, accordTable, perfumes, collation, surveys, cache,
                   repeatSame, matches, jobs>>

\* SpecListing: at most MaxListed perfumes, each with or without a price
\* and with some of the occasions; u1, who asks for the listing, has a match
\* for every perfume, u2 for the first one.
ListedPrices == {None, Some(10), Some(60)}
ListedOccasions == {{}, {1}, {1, 2}}
ListedScores == {700, 900}

Requests ==
    [price_min : {None, Some(10)},
     price_max : {None, Some(10)},
     occasions : {None, Some(<<"2">>), Some(<<"2 ", " 1">>), Some(<<"1", "x">>)}]

ListingInit ==
    /\ \E n \in 0..MaxListed :
          /\ perfumes = [p \in 1..n |-> PerfumeKinds[3]]
          /\ pricePerML \in [1..n -> ListedPrices]
          /\ perfumeOccasions \in [1..n -> ListedOccasions]
          /\ \E scores \in [1..n -> ListedScores] :
                matches = [u \in Users |->
                              IF u = "u1" THEN scores
                              ELSE [p \in {1} \cap (1..n) |-> 950]]
    /\ accordTable = {"amber", "citrus"}
    /\ collation = "binary"
    /\ surveys = [u \in Users |-> NoSurvey]
    /\ cache = NoEntry
    /\ lastCall = NoCall
    /\ repeatSame = TRUE
    /\ jobs = [u \in Users |-> NoJob]
    /\ classifier = AccordOccasionClassifier(1, 3, 40)
    /\ accordOrder = <<>>
    /\ occasionTable = <<"Daytime", "Night Out", "Office">>

ListingNext ==
    \E request \in Requests : ListRecommendations("u1", request)

SpecListing == ListingInit /\ [][ListingNext]_vars

----------------------------------------------------------------------------
(* Claims about generate_recommendations *)

IsGenerate == lastCall.fn = "generate_recommendations"
ReturnedList == IsGenerate /\ DOMAIN lastCall.result = {"list"}
ResultIds ==
    {lastCall.result.list[i].perfume_id : i \in DOMAIN lastCall.result.list}

\* The gender of catalog item p as the claims read it: unset counts as unisex.
ItemGender(p) == IF perfumes[p].gender = "" THEN "unisex" ELSE perfumes[p].gender

\* The items the stated policy keeps for a user of (lower-cased) gender g.
PolicyKeeps(g) ==
    {p \in DOMAIN perfumes :
        \/ g = "male" /\ ItemGender(p) \in {"male", "unisex"}
        \/ g = "female" /\ ItemGender(p) \in {"female", "unisex"}
        \/ g = "unisex" /\ ItemGender(p) = "unisex"
        \/ g \notin {"male", "female", "unisex"}}

SurveyGender(u) == Lower(surveys[u].response_data.gender.str)

\* C1: whenever generate_recommendations returns a list, the perfumes in it
\* are exactly the catalog items the gender policy keeps for the user's
\* lower-cased survey gender (male: male and unisex items; female: female and
\* unisex items; unisex: only unisex items; any other string: all items; an
\* item with no gender counts as unisex), each of them once.
C1_GenderFilterExact ==
    ReturnedList =>
        /\ ResultIds = PolicyKeeps(SurveyGender(lastCall.user))
        /\ Len(lastCall.result.list) = Cardinality(ResultIds)

\* A unisex user got a list that leaves out a male item and keeps an item
\* whose gender is unset.
C1_Witness ==
    /\ ReturnedList
    /\ SurveyGender(lastCall.user) = "unisex"
    /\ \E p \in DOMAIN perfumes : perfumes[p].gender = "male" /\ p \notin ResultIds
    /\ \E p \in DOMAIN perfumes : perfumes[p].gender = "" /\ p \in ResultIds

\* C2: generate_recommendations returns None when the frames it obtained are
\* empty (in a call without fault: when the catalog has no items, or no item
\* has an accord), when the user has no survey, and when the survey has no
\* gender; otherwise it returns a list, which is the empty list when the
\* gender policy keeps no item; it returns nothing else (it does not raise).
C2_NoneVersusEmptyList ==
    IsGenerate =>
        LET sv == surveys[lastCall.user]
            noSurvey == sv = NoSurvey
            noGender == /\ ~noSurvey
                        /\ \/ "gender" \notin DOMAIN sv.response_data
                           \/ sv.response_data.gender = JStr("")
            noItems == DOMAIN perfumes = {}
            noAccords == \A p \in DOMAIN perfumes : perfumes[p].accords = {}
            noData == lastCall.rows = 0 \/ lastCall.columns = <<>>
        IN /\ lastCall.result = None \/ DOMAIN lastCall.result = {"list"}
           /\ (lastCall.fault = "none" /\ (noItems \/ noAccords)) => noData
           /\ (noData \/ noSurvey \/ noGender) => lastCall.result = None
           /\ ~(noData \/ noSurvey \/ noGender) =>
                 /\ ReturnedList
                 /\ PolicyKeeps(SurveyGender(lastCall.user)) = {}
                       => lastCall.result = [list |-> <<>>]

\* The catalog has items with accords, the survey is usable, the gender
\* filter keeps nothing: the call returned the empty list.
C2_Witness ==
    /\ IsGenerate
    /\ lastCall.result = [list |-> <<>>]
    /\ \E p \in DOMAIN perfumes : perfumes[p].accords # {}
    /\ SurveyGender(lastCall.user) \in {"male", "female", "unisex"}

BoostedValues ==
    {lastCall.boosted[i].boosted_score : i \in DOMAIN lastCall.boosted}

ScoreOf(p) ==
    LET i == CHOOSE k \in DOMAIN lastCall.result.list :
                 lastCall.result.list[k].perfume_id = p
    IN lastCall.result.list[i].score

\* C3: in every non-empty list generate_recommendations returns, every score
\* is a fraction in [0,1]; when the candidates' boosted scores are not all
\* equal, a candidate with the highest boosted score gets exactly 1 and one
\* with the lowest exactly 0; when they are all equal (a single candidate
\* included), every candidate gets exactly 1/2.
C3_ScoresNormalized ==
    (ReturnedList /\ lastCall.result.list # <<>>) =>
        LET list == lastCall.result.list
            hi == SetMax(BoostedValues)
            lo == SetMin(BoostedValues)
        IN /\ \A i \in DOMAIN list :
                 /\ list[i].score.den > 0
                 /\ 0 <= list[i].score.num
                 /\ list[i].score.num <= list[i].score.den
           /\ {lastCall.boosted[i].perfume_id : i \in DOMAIN lastCall.boosted}
                 = ResultIds
           /\ hi > lo =>
                 \A i \in DOMAIN lastCall.boosted :
                    LET b == lastCall.boosted[i]
                    IN /\ b.boosted_score = hi => ScoreOf(b.perfume_id) = [num |-> 1, den |-> 1]
                       /\ b.boosted_score = lo => ScoreOf(b.perfume_id) = [num |-> 0, den |-> 1]
           /\ hi = lo =>
                 \A i \in DOMAIN list : list[i].score = [num |-> 1, den |-> 2]

\* Three candidates with three different boosted scores: the list holds 1,
\* a score strictly between 0 and 1, and 0.
C3_Witness ==
    /\ ReturnedList
    /\ Len(lastCall.result.list) = 3
    /\ Cardinality(BoostedValues) = 3
    /\ \E i \in DOMAIN lastCall.result.list :
          LET s == lastCall.result.list[i].score
          IN 0 < s.num /\ s.num < s.den /\ s # [num |-> 1, den |-> 2]

\* C4: the returned list is in descending order of score, and candidates of
\* equal score are in ascending order of perfume id.
C4_SortedWithIdTieBreak ==
    ReturnedList =>
        \A i, j \in DOMAIN lastCall.result.list :
            i < j =>
                LET a == lastCall.result.list[i]
                    b == lastCall.result.list[j]
                IN /\ ~ScoreLess(a.score, b.score)
                   /\ a.score = b.score => a.perfume_id < b.perfume_id

\* C5: two calls of generate_recommendations for the same user, with no fault
\* and no change of catalog or survey between them, return the same value.
C5_Deterministic == repeatSame

\* The values generate_recommendations(u) can return when there is no cache.
NoCacheResults(u) ==
    {Recommend(d.perfumes_df, d.accord_matrix_df, surveys[u]).value :
        d \in {GetPerfumeAccordData(NoEntry, accordTable, perfumes, collation,
                                    [fault |-> "none", db |-> q]) :
                  q \in QueryResults(perfumes)}}

\* C10: a call in which reading the cache entry fails returns a value that a
\* call without a cache returns.
C10_CacheFaultIsMiss ==
    (IsGenerate /\ lastCall.fault = "cache_get") =>
        lastCall.result \in NoCacheResults(lastCall.user)


----------------------------------------------------------------------------
(* Claims about the matrix, the survey vector and the vocabulary *)

\* The weight, in tenths, the claim gives to the accord at a rank.
RankWeight(rank) ==
    CASE rank = 0 -> 10 [] rank = 1 -> 8 [] rank = 2 -> 6
      [] rank = 3 -> 4 [] rank = 4 -> 2 [] OTHER -> 1

\* C6: in the matrix _get_perfume_accord_data builds, for every perfume and
\* every vocabulary accord (column), the weight is 1.0, 0.8, 0.6, 0.4, 0.2 when
\* the accord is at rank 0..4 of the perfume's ordered accord list, 0.1 at a
\* rank of 5 or more, 0 when the perfume's list does not hold the accord; a
\* perfume without accords has a row of zeros; every weight is in [0,1].
C6_RankWeights ==
    (/\ lastCall.fn = "_get_perfume_accord_data"
     /\ lastCall.fault = "none"
     /\ ~lastCall.hit
     /\ DOMAIN perfumes # {}) =>
        LET m == lastCall.accord_matrix_df
        IN \A p \in DOMAIN perfumes :
             LET list == LowerNamed(lastCall.db.accords[p])
             IN /\ Len(m.w[p]) = Len(m.columns)
                /\ \A j \in DOMAIN m.columns :
                     /\ 0 <= m.w[p][j] /\ m.w[p][j] <= 10
                     /\ \A i \in DOMAIN list :
                          list[i] = m.columns[j] => m.w[p][j] = RankWeight(i - 1)
                     /\ m.columns[j] \notin Range(list) => m.w[p][j] = 0

\* The rating the survey of user u holds for accord a, for the claim: the
\* value under the key a.
Rated(u, a) == a \in DOMAIN surveys[u].response_data

\* C7: when the survey has a gender string, the vector
\* _get_user_survey_vector_and_gender builds has one entry per vocabulary
\* accord; the entry of an accord rated r, a number with 0 <= r <= 5, is
\* r - 2.5; the entry of an accord rated -1, absent from the survey, or with
\* a value that is not a number or is out of range, is 0.0; every entry is in
\* [-2.5, 2.5]; no value of a single accord makes the call fail.  (Entries
\* are in halves.)
C7_PreferenceVector ==
    (/\ lastCall.fn = "_get_user_survey_vector_and_gender"
     /\ surveys[lastCall.user] # NoSurvey
     /\ "gender" \in DOMAIN surveys[lastCall.user].response_data
     /\ IsStr(surveys[lastCall.user].response_data.gender)) =>
        LET d == surveys[lastCall.user].response_data
            all_accords == lastCall.all_accords
        IN /\ DOMAIN lastCall.result.vector = {"some"}
           /\ Len(lastCall.result.vector.some) = Len(all_accords)
           /\ \A i \in DOMAIN all_accords :
                LET a == all_accords[i]
                    v == lastCall.result.vector.some[i]
                    inRange == /\ Rated(lastCall.user, a)
                               /\ IsNum(d[a])
                               /\ 0 <= d[a].num /\ d[a].num <= 5
                IN /\ -5 <= v /\ v <= 5
                   /\ inRange => v = 2 * d[a].num - 5
                   /\ (~Rated(lastCall.user, a) \/ (d[a] # JStr("4") /\ ~inRange))
                        => v = 0

\* C8: the sequence _get_all_accord_list returns holds distinct, lower-cased
\* names in lexicographic order; without a fault its names are those of the
\* named accords attached to at least one perfume, lower-cased (accords
\* attached to no perfume are left out); it is empty when no perfume has an
\* accord and when the lookup fails.
C8_Vocabulary ==
    lastCall.fn = "_get_all_accord_list" =>
        LET v == lastCall.result
            attached == UNION {perfumes[p].accords : p \in DOMAIN perfumes}
        IN /\ \A i, j \in DOMAIN v : i < j => v[i] # v[j] /\ StrLess(v[i], v[j])
           /\ \A i \in DOMAIN v : Lower(v[i]) = v[i]
           /\ lastCall.fault = "none" =>
                 Range(v) = {Lower(a) : a \in attached \ {""}}
           /\ lastCall.fault # "none" => v = <<>>
           /\ attached = {} => v = <<>>

----------------------------------------------------------------------------
(* Claims about the cache of the matrix *)

\* The cache entries a build from the current catalog can write.
BuiltEntries ==
    {GetPerfumeAccordData(NoEntry, accordTable, perfumes, collation,
                          [fault |-> "none", db |-> q]).cache :
        q \in QueryResults(perfumes)}

\* C11: a call of generate_recommendations that finds no cache entry (absent,
\* expired or evicted) leaves an entry in the cache when it returns, an entry
\* of the cache is one built from the current catalog, the call returns a
\* value a call without a cache returns, and it returns the value the call
\* before it returned for the same user on the same catalog
\* and survey: losing the entry does not change the result.
C11_MissRebuildsSameResult ==
    (IsGenerate /\ lastCall.fault = "none" /\ ~lastCall.hit) =>
        /\ DOMAIN perfumes # {} => lastCall.stored
        /\ cache # NoEntry => cache \in BuiltEntries
        /\ lastCall.result \in NoCacheResults(lastCall.user)
        /\ repeatSame

----------------------------------------------------------------------------
(* Claims about update_user_recommendations *)

JobUpdated(u) == jobs[u].pc = "done" /\ jobs[u].report = "updated"

\* C12: every score of the list generate_recommendations returned to a job
\* has at most three digits after the decimal point, and it equals the
\* match_percentage the job stored in the user's row for that perfume.
C12_ThreeDecimalScores ==
    \A u \in Users :
        JobUpdated(u) =>
            \A i \in DOMAIN jobs[u].recommendations :
                LET rec == jobs[u].recommendations[i]
                IN /\ (rec.score.num * 1000) % rec.score.den = 0
                   /\ matches[u][rec.perfume_id] * rec.score.den
                         = rec.score.num * 1000

\* The retries of a job stay within max_retries, and a job has failed only
\* after max_retries retries and one more exception.
RetriesBounded(u) ==
    jobs[u].pc # "idle" =>
        /\ jobs[u].retries <= MaxRetries
        /\ jobs[u].pc = "failed" =>
              jobs[u].retries = MaxRetries /\ jobs[u].raised = MaxRetries + 1
        /\ jobs[u].pc # "failed" => jobs[u].raised = jobs[u].retries

\* C13: a job whose generation hit an exception is retried (delivered again,
\* with one more retry counted) or, after the third retry, has failed: it
\* has not ended otherwise; a job is retried at most 3 times, and it fails
\* only when an exception follows the third retry.
C13_GenerationFailureRetried ==
    \A u \in Users :
        /\ RetriesBounded(u)
        /\ (jobs[u].pc # "idle" /\ jobs[u].gen_exception) =>
              \/ jobs[u].pc = "queued" /\ jobs[u].retries > 0
              \/ jobs[u].pc = "failed"

\* What generate_recommendations returned to the last execution of u's job.
Yielded(u) ==
    IF "recommendations" \in DOMAIN jobs[u]
    THEN [list |-> jobs[u].recommendations]
    ELSE None

\* C14: a job that has ended after generation returned None has left the
\* user's rows as they were and reports the failure of the generation; one
\* that has ended after generation returned the empty list has deleted all
\* the user's rows and reports that there were no recommendations; the two
\* reports differ.
C14_NoneAndEmptyDistinct ==
    \A u \in Users :
        jobs[u].pc = "done" =>
            /\ Yielded(u) = None =>
                  /\ jobs[u].report = "generation failed"
                  /\ matches[u] = jobs[u].before
            /\ Yielded(u) = [list |-> <<>>] =>
                  /\ jobs[u].report = "no recommendations, cleared"
                  /\ matches[u] = NoRows
            /\ jobs[u].report = "generation failed" => Yielded(u) = None
            /\ jobs[u].report = "no recommendations, cleared"
                  => Yielded(u) = [list |-> <<>>]

\* A job ended on the empty list and deleted rows the user had, while the
\* other user's job ended on None and kept that user's rows.
C14_Witness ==
    \E u, v \in Users :
        /\ jobs[u].pc = "done" /\ jobs[v].pc = "done"
        /\ Yielded(u) = [list |-> <<>>]
        /\ jobs[u].before # NoRows /\ matches[u] = NoRows
        /\ Yielded(v) = None
        /\ jobs[v].before # NoRows /\ matches[v] = jobs[v].before

\* The rows a job run alone leaves to a user who had rows, when
\* generate_recommendations returns result.
RowsAfterJobAlone(rows, result) ==
    IF result = None THEN rows
    ELSE IF result.list = <<>> THEN NoRows
    ELSE LET ids == {result.list[i].perfume_id : i \in DOMAIN result.list}
             ScoreFor(p) ==
                 result.list[CHOOSE i \in DOMAIN result.list :
                                 result.list[i].perfume_id = p].score
         IN [p \in DOMAIN rows \cup ids |->
                IF p \in ids THEN Quantize3(ScoreFor(p)) ELSE rows[p]]

\* C15: with the jobs of the two users interleaved in any way, the rows of a
\* user are those a run of that user's job alone leaves: the rows the user
\* had when the job's execution began while the execution has not ended,
\* and the rows the job alone derives from them and from the result of its
\* own generation when it has; the result the generation hands to the job
\* is one it returns for the user on this catalog.  No step of the other
\* user's job shows in them.
C15_JobsIndependent ==
    \A u \in Users :
        /\ jobs[u].pc = "idle" => matches[u] \in InitialRows
        /\ jobs[u].pc \in {"queued", "generated", "read", "failed"}
              => matches[u] = jobs[u].before
        /\ jobs[u].pc = "done"
              => matches[u] = RowsAfterJobAlone(jobs[u].before, Yielded(u))
        /\ jobs[u].pc = "generated" => Yielded(u) \in NoCacheResults(u)

\* The job of one user is between reading the rows and the transaction,
\* the job of the other user has ended and has changed that user's rows, and
\* the first user's rows are still the ones that user had.
C15_Witness ==
    \E u, v \in Users :
        /\ u # v
        /\ jobs[u].pc = "read" /\ jobs[u].before # NoRows
        /\ matches[u] = jobs[u].before
        /\ jobs[v].pc = "done" /\ matches[v] # jobs[v].before
----------------------------------------------------------------------------
(* Claims about classify_perfume *)

Classified == lastCall.fn = "classify_perfume" /\ lastCall.result # None
Labels == lastCall.result.some

\* The accumulated score of an occasion, 0 for one no accord matched.
ScoreOfOccasion(occasion) ==
    DictGet(OccasionScores(lastCall.accords), occasion, 0)

\* No occasion's score reaches 0.6 x score_threshold.
BelowBackfillThreshold ==
    \A o \in DOMAIN ACCORD_OCCASION_MAP :
        ScoreOfOccasion(o) * 10 < classifier.score_threshold * 6

\* C16: classify_perfume returns exactly ['Casual'] for the empty accord
\* list, and for a non-empty list of which no occasion's accumulated score
\* reaches 0.6 x score_threshold; the result is empty for no input.
C16_CasualDefault ==
    Classified =>
        /\ lastCall.accords = <<>> => Labels = <<"Casual">>
        /\ BelowBackfillThreshold => Labels = <<"Casual">>
        /\ Labels # <<>>

\* A non-empty list that scores for some occasion, but below the backfill
\* threshold everywhere, was classified.
C16_Witness ==
    /\ Classified
    /\ lastCall.accords # <<>>
    /\ DOMAIN OccasionScores(lastCall.accords) # {}
    /\ BelowBackfillThreshold
    /\ Labels = <<"Casual">>
OccasionLabels ==
    {"Deporte", "Oficina", "Casual", "Fiesta", "Sexy", "Formal", "Especial", "Viaje"}

\* C17: with 1 <= min_occasions <= max_occasions, classify_perfume returns
\* at least 1 and at most max_occasions labels, each of the eight occasion
\* labels, and no label twice.
C17_BoundedDistinctLabels ==
    (/\ Classified
     /\ 1 <= classifier.min_occasions
     /\ classifier.min_occasions <= classifier.max_occasions) =>
        /\ 1 <= Len(Labels)
        /\ Len(Labels) <= classifier.max_occasions
        /\ Range(Labels) \subseteq OccasionLabels
        /\ \A i, j \in DOMAIN Labels : Labels[i] = Labels[j] => i = j

\* A list that scores at or above the threshold for more occasions than
\* max_occasions, and is suitable for travel, was classified.
C17_Witness ==
    /\ Classified
    /\ Len(Labels) = classifier.max_occasions
    /\ Cardinality({o \in DOMAIN ACCORD_OCCASION_MAP :
                       ScoreOfOccasion(o) >= classifier.score_threshold})
          > classifier.max_occasions
    /\ IsTravelSuitable(lastCall.accords, OccasionScores(lastCall.accords), Labels)
PolarizingPrimary ==
    /\ lastCall.accords # <<>>
    /\ Lower(lastCall.accords[1][1])
          \in {"oud", "leather", "animalic", "tobacco", "smoky"}

\* C18: a perfume whose first accord is, in any letter case, one of oud,
\* leather, animalic, tobacco and smoky never gets the label 'Viaje' from
\* classify_perfume.
C18_PolarizingNeverTravels ==
    (Classified /\ PolarizingPrimary) => "Viaje" \notin Range(Labels)

\* A list that starts with 'Oud' was classified, and but for its first
\* accord everything the travel label asks for holds: two selected
\* occasions, room for a third, two versatile accords in the top three and
\* balanced scores.
C18_Witness ==
    /\ Classified
    /\ lastCall.accords # <<>>
    /\ lastCall.accords[1][1] = "Oud"
    /\ Len(Labels) >= 2
    /\ Len(Labels) < classifier.max_occasions
    /\ IsTravelSuitable_NoPolarizingTest(lastCall.accords,
                                         OccasionScores(lastCall.accords), Labels)
----------------------------------------------------------------------------
(* Claims about reclassify_occasions *)

IsReclassify == lastCall.fn = "reclassify_occasions"

\* C19: classify_perfume gives a perfume the labels it gave it in the run
\* before, and a run of the command that follows an applied run over the
\* whole of an unchanged catalog finds no perfume whose occasions differ
\* from the classifier's labels and leaves every perfume's occasions, and
\* the Occasion rows, as they were.
C19_ReclassifyIdempotent ==
    IsReclassify =>
        /\ \A p \in DOMAIN lastCall.labels : lastCall.labels[p] = NewOccasionNames(p)
        /\ lastCall.after_full_run =>
              /\ lastCall.changes = {}
              /\ perfumeOccasions = lastCall.before
              /\ occasionTable = lastCall.table_before

\* A run that applies changes followed a run that had created the row of
\* 'Deporte' and retagged the whole catalog.
C19_Witness ==
    /\ IsReclassify
    /\ lastCall.after_full_run
    /\ ~lastCall.dry_run
    /\ ~lastCall.raised
    /\ "Deporte" \in Range(occasionTable)
    /\ \E p \in DOMAIN perfumeOccasions :
          "Noche" \in Range(occasionTable) /\ "Noche" \notin CurrentOccasions(p)
----------------------------------------------------------------------------
(* Claims about the recommendations listing *)

IsListing == lastCall.fn = "list_recommendations"
Listed == lastCall.results

\* The occasions a request lists: the ids between the commas of a value
\* that is a list of ids.
ListsOccasions ==
    /\ lastCall.request.occasions # None
    /\ \A i \in DOMAIN lastCall.request.occasions.some :
          Strip(lastCall.request.occasions.some[i]) \in {"1", "2", "3"}
RequestedOccasions ==
    {o \in DOMAIN occasionTable :
        \E i \in DOMAIN lastCall.request.occasions.some :
           Strip(lastCall.request.occasions.some[i]) = <<"1", "2", "3">>[o]}

PriceWithin(p) ==
    /\ lastCall.request.price_min # None =>
          /\ pricePerML[p] # None
          /\ pricePerML[p].some >= lastCall.request.price_min.some
    /\ lastCall.request.price_max # None =>
          /\ pricePerML[p] # None
          /\ pricePerML[p].some <= lastCall.request.price_max.some

----------------------------------------------------------------------------
(* Claims about the scores and the stages of classify_perfume *)

\* The weight of a rank as the claim tabulates it.
WeightOfRank(rank) ==
    CASE rank = 0 -> 3
      [] rank = 1 -> 2
      [] OTHER -> 1

\* The accords of the call that are in the table of an occasion.
AccordsIn(occasion) ==
    {i \in DOMAIN lastCall.accords :
        Lower(lastCall.accords[i][1]) \in DOMAIN ACCORD_OCCASION_MAP[occasion]}

RECURSIVE SumOver(_, _)
SumOver(S, occasion) ==
    IF S = {} THEN 0
    ELSE LET i == CHOOSE x \in S : TRUE
         IN ACCORD_OCCASION_MAP[occasion][Lower(lastCall.accords[i][1])]
               * WeightOfRank(lastCall.accords[i][2])
            + SumOver(S \ {i}, occasion)

\* The scores of the call as the claim defines them: an occasion has a
\* score when some accord is in its table.
ClaimedScores ==
    [o \in {x \in DOMAIN ACCORD_OCCASION_MAP : AccordsIn(x) # {}} |->
        SumOver(AccordsIn(o), o)]

Summarized == lastCall.fn = "get_occasion_summary" /\ lastCall.result # None

\* C21: the score classify_perfume accumulates for an occasion is the sum,
\* over the accords whose lower-cased name is in the occasion's table, of
\* base_weight x max(3 - rank, 1); other accords add nothing, and
\* get_occasion_summary returns exactly these scores.
C21_ScoresAccumulated ==
    /\ Classified => OccasionScores(lastCall.accords) = ClaimedScores
    /\ Summarized => lastCall.result.some = ClaimedScores

\* get_occasion_summary was called with accords of rank 0, 1 and 2, one of
\* them in no table and one in upper case, and two of them in the table of
\* one occasion.
C21_Witness ==
    /\ Summarized
    /\ Len(lastCall.accords) = 3
    /\ \E i \in DOMAIN lastCall.accords : lastCall.accords[i][1] = "musk"
    /\ \E i \in DOMAIN lastCall.accords : lastCall.accords[i][1] = "Oud"
    /\ \E o \in DOMAIN ClaimedScores : Cardinality(AccordsIn(o)) = 2

\* The labels classify_perfume returned, without the travel label.
LabelsWithoutTravel == SelectSeq(Labels, LAMBDA l : l # "Viaje")

\* The occasions of `scores` that reach `tenfold` tenths of a tenth.
Reaching(scores, tenfold) == {o \in DOMAIN scores : scores[o] * 10 >= tenfold}

Descending(occasions, scores) ==
    \A i, j \in DOMAIN occasions :
        i < j => scores[occasions[i]] >= scores[occasions[j]]

NoRepeats(seq) == \A i, j \in DOMAIN seq : seq[i] = seq[j] => i = j

\* C22: the occasions classify_perfume selects by threshold are the
\* highest-scoring occasions that reach score_threshold, as many as there
\* are up to max_occasions, in descending score order; when at least
\* min_occasions occasions reach score_threshold, no occasion below
\* score_threshold is returned, the travel label apart.
C22_ThresholdSelection ==
    (Classified /\ lastCall.accords # <<>>) =>
        LET scores == OccasionScores(lastCall.accords)
            reach == Reaching(scores, classifier.score_threshold * 10)
            selected == SelectAbove(classifier, SortedOccasions(lastCall.accords),
                                    scores, <<>>)
        IN /\ Range(selected) \subseteq reach
           /\ Len(selected) = Min(classifier.max_occasions, Cardinality(reach))
           /\ NoRepeats(selected)
           /\ Descending(selected, scores)
           /\ \A o \in reach \ Range(selected) :
                 \A i \in DOMAIN selected : scores[o] <= scores[selected[i]]
           /\ Cardinality(reach) >= classifier.min_occasions =>
                 LabelsWithoutTravel = selected

\* More occasions reached the threshold than max_occasions, with different
\* scores, and some occasion scored below the threshold.
C22_Witness ==
    /\ Classified
    /\ LET scores == OccasionScores(lastCall.accords)
           reach == Reaching(scores, classifier.score_threshold * 10)
       IN /\ Cardinality(reach) > classifier.max_occasions
          /\ Len(Labels) >= 2
          /\ scores[Labels[1]] > scores[Labels[2]]
          /\ DOMAIN scores \ reach # {}
\* C23: when fewer than min_occasions occasions reach score_threshold,
\* classify_perfume adds occasions that reach 0.6 x score_threshold, the
\* highest score first and none twice, until min_occasions are selected or
\* no such occasion is left; it never adds an occasion below
\* 0.6 x score_threshold.
C23_Backfill ==
    (Classified /\ lastCall.accords # <<>>) =>
        LET scores == OccasionScores(lastCall.accords)
            reach == Reaching(scores, classifier.score_threshold * 10)
            low == Reaching(scores, classifier.score_threshold * 6)
            labels == LabelsWithoutTravel
        IN Cardinality(reach) < classifier.min_occasions =>
              IF low = {} THEN labels = <<"Casual">>
              ELSE /\ Len(labels) = Min(classifier.min_occasions, Cardinality(low))
                   /\ Range(labels) \subseteq low
                   /\ reach \subseteq Range(labels)
                   /\ NoRepeats(labels)
                   /\ Descending(labels, scores)
                   /\ \A o \in low \ Range(labels) :
                         \A i \in DOMAIN labels : scores[o] <= scores[labels[i]]

\* One occasion reached the threshold, min_occasions asked for more, and the
\* backfill added one occasion and left another one that reached the lower
\* threshold, and one below it.
C23_Witness ==
    /\ Classified
    /\ LET scores == OccasionScores(lastCall.accords)
           reach == Reaching(scores, classifier.score_threshold * 10)
           low == Reaching(scores, classifier.score_threshold * 6)
       IN /\ Cardinality(reach) = 1
          /\ classifier.min_occasions = 2
          /\ Len(LabelsWithoutTravel) = 2
          /\ Cardinality(low) > 2
          /\ DOMAIN scores \ low # {}
\* The conditions of the travel label as the claim lists them, for the
\* selection `selected` of the call.
TravelConditions(selected) ==
    LET accords == lastCall.accords
        scores == OccasionScores(accords)
        ranked == SortedOccasions(accords)
        top3 == {Lower(accords[i][1]) : i \in 1..Min(3, Len(accords))}
    IN /\ Len(selected) < classifier.max_occasions
       /\ Len(selected) >= 2
       /\ Cardinality(top3 \cap {"fresh", "citrus", "aromatic", "woody"}) >= 2
       /\ Lower(accords[1][1]) \notin {"oud", "leather", "animalic", "tobacco", "smoky"}
       /\ Len(ranked) >= 3 => 2 * scores[ranked[3]] >= scores[ranked[1]]

\* C24: classify_perfume appends 'Viaje' exactly when there is room under
\* max_occasions, at least 2 occasions are selected, at least 2 of the top
\* 3 accords are versatile, the top accord is not polarizing and, when 3 or
\* more occasions scored, the third score is at least half the top score;
\* the label comes last and removes or replaces no selected occasion.
C24_TravelGate ==
    (Classified /\ lastCall.accords # <<>>) =>
        /\ "Viaje" \in Range(Labels) <=> TravelConditions(LabelsWithoutTravel)
        /\ Labels \in {LabelsWithoutTravel, Append(LabelsWithoutTravel, "Viaje")}

\* The travel label was appended to two selected occasions while other
\* occasions had scored.
C24_Witness ==
    /\ Classified
    /\ Len(Labels) = 3
    /\ Labels[3] = "Viaje"
    /\ Cardinality(DOMAIN OccasionScores(lastCall.accords)) > 3
\* C25: occasions with exactly equal scores are ranked in the order of the
\* occasion table (Deporte, Oficina, Casual, Fiesta, Sexy, Formal,
\* Especial), whatever accord scored them first: of two such occasions the
\* later one is returned only together with, and after, the earlier one.
C25_TiesInTableOrder ==
    (Classified /\ lastCall.accords # <<>>) =>
        LET scores == OccasionScores(lastCall.accords)
            low == Reaching(scores, classifier.score_threshold * 6)
            labels == LabelsWithoutTravel
        IN low # {} =>
              \A o1, o2 \in DOMAIN scores :
                  (/\ scores[o1] = scores[o2]
                   /\ IndexOf(OccasionOrder, o1) < IndexOf(OccasionOrder, o2)
                   /\ o2 \in Range(labels)) =>
                      /\ o1 \in Range(labels)
                      /\ IndexOf(labels, o1) < IndexOf(labels, o2)
\* At least 2 of the top 3 accords of the call are versatile.
VersatileTop ==
    Cardinality({Lower(lastCall.accords[i][1]) : i \in 1..Min(3, Len(lastCall.accords))}
                   \cap {"fresh", "citrus", "aromatic", "woody"}) >= 2

DefaultConfiguration == classifier = AccordOccasionClassifier(1, 3, 40)

\* C30: with the default configuration and accords ranked by their list
\* position, classify_perfume never returns 'Viaje': whenever at least 2 of
\* the top 3 accords are versatile, 3 occasions or more reach the threshold
\* and the 3 labels returned leave no room.
C30_DefaultNeverTravels ==
    (Classified /\ DefaultConfiguration) =>
        /\ "Viaje" \notin Range(Labels)
        /\ VersatileTop =>
              /\ Cardinality(Reaching(OccasionScores(lastCall.accords),
                                      classifier.score_threshold * 10)) >= 3
              /\ Len(Labels) = classifier.max_occasions

\* A call under the default configuration whose accords satisfy every
\* condition of the travel label except the room.
C30_Witness ==
    /\ Classified
    /\ DefaultConfiguration
    /\ VersatileTop
    /\ IsTravelSuitable(lastCall.accords, OccasionScores(lastCall.accords), Labels)
\* C29: every entry of the preference vector is 0.0 or the centred value
\* r - 2.5 of a rating r the survey stores for that accord, under a key equal
\* to the accord's name once lower-cased; a key such as 'Citrus' gives the
\* entry of 'citrus' the centred value of its own rating.  (Entries are in
\* halves.)
C29_OwnRatingOnly ==
    (/\ lastCall.fn = "_get_user_survey_vector_and_gender"
     /\ surveys[lastCall.user] # NoSurvey
     /\ lastCall.result.vector # None) =>
        LET d == surveys[lastCall.user].response_data
            all_accords == lastCall.all_accords
            vector == lastCall.result.vector.some
        IN \A i \in DOMAIN all_accords :
              LET keys == {k \in DOMAIN d : Lower(k) = all_accords[i]}
              IN /\ vector[i] # 0 =>
                       \E k \in keys : vector[i] = CentredRating(d[k])
                 /\ (keys # {} /\ all_accords[i] \notin keys) =>
                       \E k \in keys : vector[i] = CentredRating(d[k])
\* C28: after catalog additions, catalog deletions and calls of
\* generate_recommendations, every perfume id of a returned list is the id
\* of a perfume the catalog holds at the time of the call.
C28_ReturnedIdsExist ==
    (/\ lastCall.fn = "generate_recommendations"
     /\ lastCall.result # None) =>
        ResultIds \subseteq DOMAIN perfumes
\* C26: after a job has completed successfully on a non-empty result, the
\* user has a row for every perfume of the result and the row holds the
\* result's score; the rows the user had for other perfumes are as they were
\* and no other row exists; before the transaction commits, none of its
\* creations or updates shows.
C26_ResultPersisted ==
    \A u \in Users :
        /\ JobUpdated(u) =>
              LET perfume_scores == PerfumeScores(jobs[u].recommendations)
                  others == DOMAIN jobs[u].before \ DOMAIN perfume_scores
              IN /\ DOMAIN matches[u] = DOMAIN jobs[u].before \cup DOMAIN perfume_scores
                 /\ \A p \in DOMAIN perfume_scores :
                       matches[u][p] * perfume_scores[p].den
                          = perfume_scores[p].num * 1000
                 /\ \A p \in others : matches[u][p] = jobs[u].before[p]
        /\ jobs[u].pc = "read" => matches[u] = jobs[u].before
JobEnded(j) == jobs[j].pc \in {"done", "failed"}

\* C27: two deliveries of the job for one user, interleaved in any way,
\* never leave two rows for the same (user, perfume); once both have ended,
\* retries included, every (perfume, score) pair of the result a delivery
\* generated has a row of the user that holds that score.
C27_ConcurrentJobs ==
    LET rows == matches[SubmittingUser]
    IN /\ \A i, k \in DOMAIN rows : rows[i].perfume_id = rows[k].perfume_id => i = k
       /\ \A j \in Deliveries : jobs[j].retries <= MaxRetries
       /\ (\A j \in Deliveries : JobEnded(j)) =>
             \A j \in Deliveries :
                /\ jobs[j].pc = "done"
                /\ \A n \in DOMAIN jobs[j].recommendations :
                      LET rec == jobs[j].recommendations[n]
                      IN \E i \in DOMAIN rows :
                            /\ rows[i].perfume_id = rec.perfume_id
                            /\ rows[i].match_percentage * rec.score.den
                                  = rec.score.num * 1000
====
